---- MODULE Spec2Model ----
(***************************************************************************)
(* A model of httpclient-cpp: the CHTTPClient session and request          *)
(* lifecycle (HTTP/HTTPClient.cpp, HTTPClient.h) and the process-wide      *)
(* libcurl environment it shares (HTTP/CurlHandle.cpp).                    *)
(*                                                                         *)
(* Strings are sequences of one-character strings, so that prefix tests    *)
(* and case conversion are computed as the code computes them.  NULL       *)
(* pointers are 0; a curl_slist is the sequence of its entries and the     *)
(* null list is the empty sequence.                                        *)
(***************************************************************************)
EXTENDS Integers, Sequences, FiniteSets, TLC

VARIABLES
    client,   \* client[c]: the data members of CHTTPClient object c
    pc,       \* pc[c]: where the thread that owns object c is
    easy,     \* easy[c]: the option state of the easy handle of object c
    heap,     \* libcurl allocations of the process (easy handles, slists)
    inst,     \* the function-local static CurlHandle of CurlHandle::instance
    env,      \* libcurl global state: counts of curl_global_init/cleanup
    session,  \* session[c]: Active or Uninitialized, as the calls returned
    built,    \* built[c]: constructions thread c has started so far
    count,    \* the count of CHTTPClient objects (GetCurlSessionCount)
    caFile,   \* CHTTPClient::s_strCertificationAuthorityFile
    upload,   \* the UploadObject of a Put and what the engine has read of it
    forms,    \* the PostFormInfo objects of the caller and their form chains
    out,      \* out[c]: the caller's objects that requests on c write to
    last      \* the last call made on the public interface and its outcome

vars == <<client, pc, easy, heap, inst, env, session, built, count, caFile,
          upload, forms, out, last>>

----------------------------------------------------------------------------
(* Bounds of the model                                                     *)

MaxHandles == 2      \* easy handles a process allocates over its life
MaxHeaders == 1      \* entries of a pending header list
MaxRounds  == 2      \* objects a thread constructs one after the other
MaxLen     == 3      \* bytes of the buffer a Put uploads
MaxBlock   == 3      \* bytes the engine asks the read callback for
MaxForms   == 2      \* PostFormInfo objects a caller declares
MaxParts   == 2      \* fields added through one PostFormInfo
MaxBody    == 2      \* bytes a response body holds before a further call
NThreads   == 2      \* threads of the multi-threaded specification

----------------------------------------------------------------------------
(* Program constants                                                       *)

NULL == 0

NO_FLAGS    == 0
ENABLE_LOG  == 1
VERIFY_PEER == 2
VERIFY_HOST == 4
ALL_FLAGS   == 255

CURLE_OK                  == 0
CURLE_FAILED_INIT         == 2
CURLE_COULDNT_CONNECT     == 7
CURLE_ABORTED_BY_CALLBACK == 42
CURLE_RECV_ERROR          == 56

LOG_ERROR_EMPTY_HOST_MSG        == "[HTTPClient][Error] Empty hostname."
LOG_WARNING_OBJECT_NOT_CLEANED  == "[HTTPClient][Warning] Object was freed before calling CHTTPClient::CleanupSession(). The API session was cleaned though."
LOG_ERROR_CURL_ALREADY_INIT_MSG == "[HTTPClient][Error] Curl session is already initialized ! Use CleanupSession() to clean the present one."
LOG_ERROR_CURL_NOT_INIT_MSG     == "[HTTPClient][Error] Curl session is not initialized ! Use InitSession() before."
LOG_ERROR_CURL_REQ_FAILURE_FORMAT      == "[HTTPClient][Error] Unable to perform request from '%s' (Error = %d | %s) (HTTP_Status = %ld)"
LOG_ERROR_CURL_REST_FAILURE_FORMAT     == "[HTTPClient][Error] Unable to perform a REST request from '%s' (Error = %d | %s)"
LOG_ERROR_CURL_DOWNLOAD_FAILURE_FORMAT == "[HTTPClient][Error] Unable to perform a request - '%s' from '%s' (Error = %d | %s) (HTTP_Status = %ld)"
LOG_ERROR_DOWNLOAD_FILE_FORMAT         == "[HTTPClient][Error] Unable to open local file %s"

----------------------------------------------------------------------------
(* Bit masks: a & b on unsigned integers                                   *)

RECURSIVE BitAnd(_, _)
BitAnd(a, b) ==
    IF a = 0 \/ b = 0 THEN 0
    ELSE (a % 2) * (b % 2) + 2 * BitAnd(a \div 2, b \div 2)

\* the C++ condition `if (flags & bit)`
FlagSet(flags, bit) == BitAnd(flags, bit) # 0

Clients == DOMAIN client

----------------------------------------------------------------------------
(* The object right after CHTTPClient::CHTTPClient                         *)

\* a ProgressFnCallback (std::function) holds a callable: kind tells what
\* was assigned to it, ret what the callable returns when it is called
Callable(kind, ret) == [kind |-> kind, ret |-> ret]

\* a std::function that holds nothing
NoCallable == Callable("empty", 0)

NewClient ==
    [ m_strURL               |-> <<>>,
      m_strProxy             |-> <<>>,
      m_bNoSignal            |-> FALSE,
      m_bHTTPS               |-> FALSE,
      m_eSettingsFlags       |-> ALL_FLAGS,
      m_pHeaderlist          |-> <<>>,
      m_strSSLCertFile       |-> <<>>,
      m_strSSLKeyFile        |-> <<>>,
      m_strSSLKeyPwd         |-> <<>>,
      m_pCurlSession         |-> NULL,
      m_iCurlTimeout         |-> 0,
      m_fnProgressCallback   |-> NoCallable,
      m_bProgressCallbackSet |-> FALSE,
      m_ProgressStruct       |-> [dLastRunTime |-> 0, pCurl |-> NULL,
                                  pOwner |-> NULL] ]

\* std::unordered_map with no entry
EmptyMap == [k \in {} |-> <<>>]

\* HttpResponse::HttpResponse
NewHttpResponse == [iCode |-> 0, mapHeaders |-> EmptyMap, strBody |-> <<>>]

\* the objects a caller hands to the request methods, as the tests declare
\* them, and the local file of DownloadFile
NewOutputs ==
    [ lHTTPStatusCode |-> 0,
      strOutput       |-> <<>>,
      Response        |-> NewHttpResponse,
      file            |-> [exists |-> FALSE, data |-> <<>>] ]

\* out[c] after a call that is handed none of these objects: only the local
\* file is still there
NoOutputs(o) == [NewOutputs EXCEPT !.file = o.file]

\* a handle on which no option is set (curl_easy_init, curl_easy_reset)
NoOptions == [o \in {} |-> NULL]

\* a message passed to m_oLog: a fixed text, or a format with its arguments
Msg(text) == [text |-> text, url |-> <<>>, res |-> 0, status |-> 0]
Fmt(format, url, res, status) ==
    [text |-> format, url |-> url, res |-> res, status |-> status]

\* m_oLog is called only behind `if (flags & ENABLE_LOG)`
LogIf(flags, msg) == IF FlagSet(flags, ENABLE_LOG) THEN <<msg>> ELSE <<>>

----------------------------------------------------------------------------
(* libcurl allocations                                                     *)

\* what curl_easy_init can return: NULL, or a handle never returned before
CurlEasyInit ==
    {NULL} \cup (IF heap.allocs < MaxHandles THEN {heap.allocs + 1} ELSE {})

HeapEasyInit(hp, h) ==
    IF h = NULL THEN hp
    ELSE [hp EXCEPT !.handles = @ \cup {h}, !.allocs = @ + 1]

\* curl_easy_cleanup(h): releasing a handle that is not live corrupts the heap
HeapEasyCleanup(hp, h) ==
    IF h \in hp.handles
    THEN [hp EXCEPT !.handles = @ \ {h}]
    ELSE [hp EXCEPT !.bad = TRUE]

\* curl_slist_append on a null list allocates the list of object c
HeapSlistAppend(hp, c) == [hp EXCEPT !.lists = @ \cup {c}]

\* curl_slist_free_all on the list of object c
HeapSlistFree(hp, c) ==
    IF c \in hp.lists
    THEN [hp EXCEPT !.lists = @ \ {c}]
    ELSE [hp EXCEPT !.bad = TRUE]

----------------------------------------------------------------------------
(* Session lifecycle: InitSession, CleanupSession, ~CHTTPClient            *)

\* the count of CHTTPClient objects, incremented and decremented under a
\* mutex by the constructor and the destructor
CountAfterConstruction(n) == n + 1
\* variant of CountAfterDestruction: the destructor does not decrement
CountKeptAfterDestruction(n) == n
CountAfterDestruction(n) == n - 1

\* what the last call was: object, method, arguments, return value, the
\* messages it passed to m_oLog; xfer is the transfer it triggered, if any
CallX(c, op, args, ret, log, xfer) ==
    [c |-> c, op |-> op, args |-> args, ret |-> ret, log |-> log,
     xfer |-> xfer]

NoTransfer == [res |-> -1, code |-> 0, body |-> <<>>, headers |-> <<>>]

Call(c, op, args, ret, log) == CallX(c, op, args, ret, log, NoTransfer)

\* the session as the return values report it: Active from an InitSession
\* that returned true until a CleanupSession that returned true
SessionAfter(s, op, ret) ==
    IF op = "InitSession" /\ ret THEN "Active"
    ELSE IF op = "CleanupSession" /\ ret THEN "Uninitialized"
    ELSE s

\* variants of InitSessionFields: the arguments stored before the check of
\* m_pCurlSession; the settings flags not stored
InitSessionFieldsStoredFirst(cl, bHTTPS, eSettingsFlags, h) ==
    IF cl.m_pCurlSession # NULL
    THEN [cl EXCEPT !.m_bHTTPS = bHTTPS, !.m_eSettingsFlags = eSettingsFlags]
    ELSE [cl EXCEPT !.m_pCurlSession   = h,
                    !.m_bHTTPS         = bHTTPS,
                    !.m_eSettingsFlags = eSettingsFlags]

InitSessionFieldsNoFlags(cl, bHTTPS, eSettingsFlags, h) ==
    IF cl.m_pCurlSession # NULL THEN cl
    ELSE [cl EXCEPT !.m_pCurlSession = h, !.m_bHTTPS = bHTTPS]

InitSessionFields(cl, bHTTPS, eSettingsFlags, h) ==
    IF cl.m_pCurlSession # NULL THEN cl
    ELSE [cl EXCEPT !.m_pCurlSession   = h,
                    !.m_bHTTPS         = bHTTPS,
                    !.m_eSettingsFlags = eSettingsFlags]

\* variant of InitSessionRet: `return true` instead of the test of the handle
InitSessionRetTrue(cl, h) == cl.m_pCurlSession = NULL

InitSessionRet(cl, h) ==
    IF cl.m_pCurlSession # NULL THEN FALSE ELSE h # NULL

InitSessionLog(cl, eSettingsFlags) ==
    IF cl.m_pCurlSession # NULL
    THEN LogIf(eSettingsFlags, Msg(LOG_ERROR_CURL_ALREADY_INIT_MSG))
    ELSE <<>>

InitSession(c, bHTTPS, eSettingsFlags, h) ==
    LET cl   == client[c]
        isOn == cl.m_pCurlSession # NULL
        ret  == InitSessionRet(cl, h)
    IN  /\ pc[c] = "alive"
        /\ client' = [client EXCEPT
                         ![c] = InitSessionFields(cl, bHTTPS, eSettingsFlags, h)]
        /\ heap' = IF isOn THEN heap ELSE HeapEasyInit(heap, h)
        /\ easy' = IF isOn THEN easy ELSE [easy EXCEPT ![c] = NoOptions]
        /\ session' = [session EXCEPT ![c] = SessionAfter(@, "InitSession", ret)]
        /\ last' = Call(c, "InitSession", <<bHTTPS, eSettingsFlags>>, ret,
                        InitSessionLog(cl, eSettingsFlags))
        /\ out' = [out EXCEPT ![c] = NoOutputs(@)]
        /\ UNCHANGED <<pc, inst, env, built, count, caFile,
                 upload, forms>>

\* variant of CleanupSessionFields: m_pHeaderlist is not set to nullptr
CleanupSessionFieldsKeepList(cl) ==
    IF cl.m_pCurlSession = NULL THEN cl
    ELSE [cl EXCEPT !.m_pCurlSession = NULL]

CleanupSessionFields(cl) ==
    IF cl.m_pCurlSession = NULL THEN cl
    ELSE [cl EXCEPT !.m_pCurlSession = NULL, !.m_pHeaderlist = <<>>]

CleanupSessionRet(cl) == cl.m_pCurlSession # NULL

CleanupSessionLog(cl) ==
    IF cl.m_pCurlSession = NULL
    THEN LogIf(cl.m_eSettingsFlags, Msg(LOG_ERROR_CURL_NOT_INIT_MSG))
    ELSE <<>>

CleanupSessionHeap(hp, c, cl) ==
    IF cl.m_pCurlSession = NULL THEN hp
    ELSE LET h1 == HeapEasyCleanup(hp, cl.m_pCurlSession)
         IN  IF cl.m_pHeaderlist # <<>> THEN HeapSlistFree(h1, c) ELSE h1

\* curl_easy_cleanup destroys the handle and the options set on it
CleanupSessionEasy(o, cl) == IF cl.m_pCurlSession = NULL THEN o ELSE NoOptions

CleanupSession(c) ==
    LET cl  == client[c]
        ret == CleanupSessionRet(cl)
    IN  /\ pc[c] = "alive"
        /\ client' = [client EXCEPT ![c] = CleanupSessionFields(cl)]
        /\ heap' = CleanupSessionHeap(heap, c, cl)
        /\ session' = [session EXCEPT
                          ![c] = SessionAfter(@, "CleanupSession", ret)]
        /\ easy' = [easy EXCEPT ![c] = CleanupSessionEasy(@, cl)]
        /\ last' = Call(c, "CleanupSession", <<>>, ret, CleanupSessionLog(cl))
        /\ out' = [out EXCEPT ![c] = NoOutputs(@)]
        /\ UNCHANGED <<pc, inst, env, built, count, caFile,
                 upload, forms>>

\* ~CHTTPClient: warns and cleans up when the session is still there
DestructorLog(cl) ==
    IF cl.m_pCurlSession # NULL
    THEN LogIf(cl.m_eSettingsFlags, Msg(LOG_WARNING_OBJECT_NOT_CLEANED))
         \o CleanupSessionLog(cl)
    ELSE <<>>

\* variant of DestructorCleans: the destructor does not call CleanupSession
DestructorNeverCleans(cl) == FALSE

DestructorCleans(cl) == cl.m_pCurlSession # NULL

Destroy(c) ==
    LET cl     == client[c]
        cleans == DestructorCleans(cl)
    IN  /\ pc[c] = "alive"
        /\ pc' = [pc EXCEPT ![c] = "dead"]
        /\ client' = [client EXCEPT
                         ![c] = IF cleans THEN CleanupSessionFields(cl) ELSE cl]
        /\ heap' = IF cleans THEN CleanupSessionHeap(heap, c, cl) ELSE heap
        /\ session' = [session EXCEPT
                          ![c] = IF cleans
                                 THEN SessionAfter(@, "CleanupSession",
                                                   CleanupSessionRet(cl))
                                 ELSE @]
        /\ count' = CountAfterDestruction(count)
        /\ last' = Call(c, "~CHTTPClient", <<>>, TRUE, DestructorLog(cl))
        /\ easy' = [easy EXCEPT
                       ![c] = IF cleans THEN CleanupSessionEasy(@, cl) ELSE @]
        /\ out' = [out EXCEPT ![c] = NoOutputs(@)]
        /\ UNCHANGED <<inst, env, built, caFile,
                 upload, forms>>

\* AddHeader: curl_slist_append copies the string onto the pending list
AddHeaderFields(cl, strHeader) ==
    [cl EXCEPT !.m_pHeaderlist = Append(@, strHeader)]

AddHeaderHeap(hp, c, cl) ==
    IF cl.m_pHeaderlist = <<>> THEN HeapSlistAppend(hp, c) ELSE hp

AddHeader(c, strHeader) ==
    /\ pc[c] = "alive"
    /\ Len(client[c].m_pHeaderlist) < MaxHeaders
    /\ client' = [client EXCEPT ![c] = AddHeaderFields(@, strHeader)]
    /\ heap' = AddHeaderHeap(heap, c, client[c])
    /\ last' = Call(c, "AddHeader", <<strHeader>>, TRUE, <<>>)
    /\ out' = [out EXCEPT ![c] = NoOutputs(@)]
    /\ UNCHANGED <<pc, easy, inst, env, session, built, count, caFile,
                 upload, forms>>

----------------------------------------------------------------------------
(* Strings                                                                 *)

Min(a, b) == IF a < b THEN a ELSE b

\* ::toupper on the characters the inputs are made of
ToUpperChar(ch) ==
    CASE ch = "h" -> "H" [] ch = "t" -> "T" [] ch = "p" -> "P"
      [] ch = "s" -> "S" [] ch = "a" -> "A" [] ch = "x" -> "X"
      [] OTHER -> ch

\* std::transform(s.begin(), s.end(), s.begin(), ::toupper)
ToUpper(str) == [i \in 1..Len(str) |-> ToUpperChar(str[i])]

\* str.compare(0, n, lit) == 0: the first min(n, size) characters equal lit
ComparePrefix(str, n, lit) == SubSeq(str, 1, Min(n, Len(str))) = lit

STR_HTTP       == <<"H", "T", "T", "P">>
STR_HTTP_URL   == <<"H", "T", "T", "P", ":", "/", "/">>
STR_HTTPS_URL  == <<"H", "T", "T", "P", "S", ":", "/", "/">>
PREFIX_HTTP    == <<"h", "t", "t", "p", ":", "/", "/">>
PREFIX_HTTPS   == <<"h", "t", "t", "p", "s", ":", "/", "/">>

\* variants of CheckURL: the URL is compared without std::transform to upper
\* case (against the lower-case schemes); m_bHTTPS is not assigned
CheckURLCaseSensitive(cl, strURL) ==
    IF ComparePrefix(strURL, 7, PREFIX_HTTP)
    THEN [cl EXCEPT !.m_bHTTPS = FALSE, !.m_strURL = strURL]
    ELSE IF ComparePrefix(strURL, 8, PREFIX_HTTPS)
    THEN [cl EXCEPT !.m_bHTTPS = TRUE, !.m_strURL = strURL]
    ELSE [cl EXCEPT !.m_strURL =
             (IF cl.m_bHTTPS THEN PREFIX_HTTPS ELSE PREFIX_HTTP) \o strURL]

CheckURLKeepsFlag(cl, strURL) ==
    LET strTmp == ToUpper(strURL)
    IN  IF \/ ComparePrefix(strTmp, 7, STR_HTTP_URL)
           \/ ComparePrefix(strTmp, 8, STR_HTTPS_URL)
        THEN [cl EXCEPT !.m_strURL = strURL]
        ELSE [cl EXCEPT !.m_strURL =
                 (IF cl.m_bHTTPS THEN PREFIX_HTTPS ELSE PREFIX_HTTP) \o strURL]

\* CheckURL: the scheme of the URL sets m_bHTTPS, or m_bHTTPS chooses the
\* scheme that is put in front of the URL
CheckURL(cl, strURL) ==
    LET strTmp == ToUpper(strURL)
    IN  IF ComparePrefix(strTmp, 7, STR_HTTP_URL)
        THEN [cl EXCEPT !.m_bHTTPS = FALSE, !.m_strURL = strURL]
        ELSE IF ComparePrefix(strTmp, 8, STR_HTTPS_URL)
        THEN [cl EXCEPT !.m_bHTTPS = TRUE, !.m_strURL = strURL]
        ELSE [cl EXCEPT !.m_strURL =
                 (IF cl.m_bHTTPS THEN PREFIX_HTTPS ELSE PREFIX_HTTP) \o strURL]

\* variant of SetProxyFields: "http://" is put in front of every proxy
SetProxyFieldsAlwaysPrefixed(cl, strProxy) ==
    IF strProxy = <<>> THEN cl
    ELSE [cl EXCEPT !.m_strProxy = PREFIX_HTTP \o strProxy]

\* SetProxy: a proxy that does not start with "HTTP" gets "http://"
SetProxyFields(cl, strProxy) ==
    IF strProxy = <<>> THEN cl
    ELSE IF ~ComparePrefix(ToUpper(strProxy), 4, STR_HTTP)
    THEN [cl EXCEPT !.m_strProxy = PREFIX_HTTP \o strProxy]
    ELSE [cl EXCEPT !.m_strProxy = strProxy]

----------------------------------------------------------------------------
(* The easy handle: options set with curl_easy_setopt                      *)

\* an option holds its value and whether a request that started after it
\* was set has since begun (the option is left over from an earlier request)
SetOpt(o, name, v) ==
    [n \in DOMAIN o \cup {name} |->
        IF n = name THEN [v |-> v, stale |-> FALSE] ELSE o[n]]

\* variant of SetOptIf: the option is set whatever the condition is
SetOptAlways(cond, o, name, v) == SetOpt(o, name, v)

\* SetOpt when the condition of the surrounding `if` holds
SetOptIf(cond, o, name, v) == IF cond THEN SetOpt(o, name, v) ELSE o

\* a new request begins: what is set now was set by an earlier request
Aged(o) == [n \in DOMAIN o |-> [o[n] EXCEPT !.stale = TRUE]]

\* curl_easy_reset: every option back to its default
\* variant of CurlEasyReset: the options of the previous request stay
CurlEasyResetKeeps(o) == o

CurlEasyReset(o) == NoOptions

IsSet(o, name) == name \in DOMAIN o
OptVal(o, name) == o[name].v

CURLOPT_SSL_VERIFYHOST == 81
CURLUSESSL_ALL == 3
CLIENT_USERAGENT == "httpclientcpp-agent/1.0"

\* the options Perform sets before curl_easy_perform, in the order of the
\* code; pfn is what *GetProgressFnCallback() evaluates to
PerformOpts(o, cl, strCAFile, pfn) ==
    LET o1  == SetOpt(o, "CURLOPT_URL", cl.m_strURL)
        o2  == SetOptIf(cl.m_pHeaderlist # <<>>, o1, "CURLOPT_HTTPHEADER",
                        cl.m_pHeaderlist)
        o3  == SetOpt(o2, "CURLOPT_USERAGENT", CLIENT_USERAGENT)
        o4  == SetOpt(o3, "CURLOPT_AUTOREFERER", 1)
        o5  == SetOpt(o4, "CURLOPT_FOLLOWLOCATION", 1)
        o6  == SetOptIf(cl.m_iCurlTimeout > 0, o5, "CURLOPT_TIMEOUT",
                        cl.m_iCurlTimeout)
        o7  == SetOptIf(cl.m_iCurlTimeout > 0, o6, "CURLOPT_NOSIGNAL", 1)
        o8  == SetOptIf(cl.m_strProxy # <<>>, o7, "CURLOPT_PROXY",
                        cl.m_strProxy)
        o9  == SetOptIf(cl.m_strProxy # <<>>, o8, "CURLOPT_HTTPPROXYTUNNEL", 1)
        o10 == SetOptIf(cl.m_bNoSignal, o9, "CURLOPT_NOSIGNAL", 1)
        o11 == SetOptIf(cl.m_bProgressCallbackSet, o10,
                        "CURLOPT_PROGRESSFUNCTION", pfn)
        o12 == SetOptIf(cl.m_bProgressCallbackSet, o11,
                        "CURLOPT_PROGRESSDATA", cl.m_ProgressStruct)
        o13 == SetOptIf(cl.m_bProgressCallbackSet, o12, "CURLOPT_NOPROGRESS", 0)
        o14 == SetOptIf(cl.m_bHTTPS, o13, "CURLOPT_USE_SSL", CURLUSESSL_ALL)
        o15 == SetOptIf(cl.m_bHTTPS, o14, "CURLOPT_SSL_VERIFYPEER",
                   IF FlagSet(cl.m_eSettingsFlags, VERIFY_PEER) THEN 1 ELSE 0)
        o16 == SetOptIf(cl.m_bHTTPS, o15, "CURLOPT_SSL_VERIFYPEER",
                   IF FlagSet(cl.m_eSettingsFlags, CURLOPT_SSL_VERIFYHOST)
                   THEN 2 ELSE 0)
        o17 == SetOptIf(cl.m_bHTTPS /\ strCAFile # <<>>, o16, "CURLOPT_CAINFO",
                        strCAFile)
        o18 == SetOptIf(cl.m_bHTTPS /\ cl.m_strSSLCertFile # <<>>, o17,
                        "CURLOPT_SSLCERT", cl.m_strSSLCertFile)
        o19 == SetOptIf(cl.m_bHTTPS /\ cl.m_strSSLKeyFile # <<>>, o18,
                        "CURLOPT_SSLKEY", cl.m_strSSLKeyFile)
        o20 == SetOptIf(cl.m_bHTTPS /\ cl.m_strSSLKeyPwd # <<>>, o19,
                        "CURLOPT_KEYPASSWD", cl.m_strSSLKeyPwd)
    IN  o20

\* variant of PerformFields: m_pHeaderlist is not set to nullptr
PerformFieldsKeepList(cl) == cl

\* Perform, after curl_easy_perform: the pending header list is released
PerformFields(cl) == [cl EXCEPT !.m_pHeaderlist = <<>>]

PerformHeap(hp, c, cl) ==
    IF cl.m_pHeaderlist # <<>> THEN HeapSlistFree(hp, c) ELSE hp

----------------------------------------------------------------------------
(* What curl_easy_perform can do: its result, the status CURLINFO_RESPONSE_CODE *)
(* reports afterwards, the body blocks and header lines it delivered       *)

HDR_STATUS  == <<"H", "T", "T", "P", "/", "1", " ", "2", "\r", "\n">>
HDR_KEY_A   == <<"K", ":", " ", "a", "\r", "\n">>
HDR_KEY_B   == <<" ", "K", " ", ":", "b", " ", "\r", "\n">>
HDR_BLANK   == <<"\r", "\n">>

Transfer(res, code, body, headers) ==
    [res |-> res, code |-> code, body |-> body, headers |-> headers]

TransferOutcomes ==
    { Transfer(CURLE_OK, 200, <<"b">>, <<HDR_STATUS, HDR_KEY_A, HDR_BLANK>>),
      Transfer(CURLE_OK, 404, <<"e">>, <<HDR_KEY_B>>),
      Transfer(CURLE_COULDNT_CONNECT, 0, <<>>, <<>>),
      Transfer(CURLE_RECV_ERROR, 200, <<"b">>, <<HDR_KEY_A>>),
      Transfer(CURLE_ABORTED_BY_CALLBACK, 200, <<"b">>, <<HDR_KEY_A>>) }

\* variant of CurlEasyGetInfo: the status is read only after a transfer that
\* succeeded
CurlEasyGetInfoOnSuccess(x) == IF x.res = CURLE_OK THEN x.code ELSE 0

\* curl_easy_getinfo(m_pCurlSession, CURLINFO_RESPONSE_CODE, &code) after the
\* transfer x: the last status the engine received, 0 if none
CurlEasyGetInfo(x) == x.code

\* what reading through a null pointer can give: the process is killed, or
\* the read yields whatever the memory holds
SIGSEGV == Callable("SIGSEGV", 0)
WILD    == Callable("wild", 0)

\* the engine calls the progress function o holds while the transfer runs
\* (CURLOPT_NOPROGRESS is 0), and gives up with CURLE_ABORTED_BY_CALLBACK
\* once it returns nonzero
ProgressCalled(o) ==
    /\ IsSet(o, "CURLOPT_PROGRESSFUNCTION")
    /\ IsSet(o, "CURLOPT_NOPROGRESS")
    /\ OptVal(o, "CURLOPT_NOPROGRESS") = 0

\* the outcomes curl_easy_perform can have under the options o: a progress
\* function that returns nonzero leaves no transfer complete, no other one
\* aborts any; nothing is known of what a wild pointer points to
CanHappen(x, o) ==
    IF ~ProgressCalled(o) THEN x.res # CURLE_ABORTED_BY_CALLBACK
    ELSE LET pfn == OptVal(o, "CURLOPT_PROGRESSFUNCTION")
         IN  IF pfn = WILD THEN TRUE
             ELSE IF pfn.ret # 0 THEN x.res # CURLE_OK
             ELSE x.res # CURLE_ABORTED_BY_CALLBACK

----------------------------------------------------------------------------
(* Callbacks                                                               *)

IsSpace(ch) == ch \in {" ", "\t", "\n", "\r", "\f"}

RECURSIVE TrimLeft(_)
TrimLeft(str) ==
    IF str # <<>> /\ IsSpace(Head(str)) THEN TrimLeft(Tail(str)) ELSE str

RECURSIVE TrimRight(_)
TrimRight(str) ==
    IF str # <<>> /\ IsSpace(str[Len(str)])
    THEN TrimRight(SubSeq(str, 1, Len(str) - 1)) ELSE str

\* TrimSpaces: erase the leading, then the trailing white space
TrimSpaces(str) == TrimRight(TrimLeft(str))

\* strHeader.find_first_of(":"): the index of the first colon, 0 for npos
FindFirstColon(str) ==
    IF \E i \in 1..Len(str) : str[i] = ":"
    THEN CHOOSE i \in 1..Len(str) :
             str[i] = ":" /\ \A j \in 1..(i - 1) : str[j] # ":"
    ELSE 0

STR_PRESENT == <<"p", "r", "e", "s", "e", "n", "t">>

MapPut(m, k, v) == [x \in DOMAIN m \cup {k} |-> IF x = k THEN v ELSE m[x]]

\* variant of RestHeaderCallback: a key the map already holds keeps its value
RestHeaderCallbackKeepsFirst(mapHeaders, strHeader) ==
    LET usSeperator == FindFirstColon(strHeader)
        strKey == TrimSpaces(SubSeq(strHeader, 1, usSeperator - 1))
    IN  IF usSeperator = 0
        THEN IF TrimSpaces(strHeader) = <<>> THEN mapHeaders
             ELSE MapPut(mapHeaders, TrimSpaces(strHeader), STR_PRESENT)
        ELSE IF strKey \in DOMAIN mapHeaders THEN mapHeaders
        ELSE MapPut(mapHeaders, strKey,
                    TrimSpaces(SubSeq(strHeader, usSeperator + 1,
                                      Len(strHeader))))

\* what RestHeaderCallback returns: usBlockCount * usBlockSize, the bytes of
\* the line
RestHeaderCallbackRet(strHeader) == Len(strHeader)

\* RestHeaderCallback on one header line: the header map afterwards
RestHeaderCallback(mapHeaders, strHeader) ==
    LET usSeperator == FindFirstColon(strHeader)
    IN  IF usSeperator = 0
        THEN IF TrimSpaces(strHeader) = <<>> THEN mapHeaders
             ELSE MapPut(mapHeaders, TrimSpaces(strHeader), STR_PRESENT)
        ELSE MapPut(mapHeaders,
                    TrimSpaces(SubSeq(strHeader, 1, usSeperator - 1)),
                    TrimSpaces(SubSeq(strHeader, usSeperator + 1,
                                      Len(strHeader))))

RECURSIVE HeadersReceived(_, _)
HeadersReceived(mapHeaders, lines) ==
    IF lines = <<>> THEN mapHeaders
    ELSE HeadersReceived(RestHeaderCallback(mapHeaders, Head(lines)),
                         Tail(lines))

\* RestWriteCallback and WriteInStringCallback append each block delivered
WriteAppend(str, body) == str \o body

----------------------------------------------------------------------------
(* The process-wide environment: CurlHandle::instance and its static       *)

\* the CHTTPClient constructor has run to its end for object c
Constructed(c) ==
    /\ client' = [client EXCEPT ![c] = NewClient]
    /\ easy' = [easy EXCEPT ![c] = NoOptions]
    /\ session' = [session EXCEPT ![c] = "Uninitialized"]
    /\ pc' = [pc EXCEPT ![c] = "alive"]
    /\ count' = CountAfterConstruction(count)
    /\ out' = [out EXCEPT ![c] = NewOutputs]
    /\ last' = Call(c, "CHTTPClient", <<>>, TRUE, <<>>)

\* a thread starts `CHTTPClient HTTPClient(logger)`: the member initializer
\* m_curlHandle(CurlHandle::instance()) is about to be evaluated
CtorCall(c) ==
    /\ env.proc = "running"
    /\ pc[c] \in {"idle", "dead"}
    /\ built[c] < MaxRounds
    /\ pc' = [pc EXCEPT ![c] = "ctor"]
    /\ built' = [built EXCEPT ![c] = @ + 1]
    /\ UNCHANGED <<client, easy, heap, inst, env, session, count, caFile,
                 upload, forms, out, last>>

\* instance(): the static is already constructed, return it
InstanceReturn(c) ==
    /\ env.proc = "running"
    /\ pc[c] = "ctor"
    /\ inst = "done"
    /\ Constructed(c)
    /\ UNCHANGED <<heap, inst, env, built, caFile,
                 upload, forms>>

\* variant of InstanceEnter: the initialization of the static is not guarded,
\* a second thread enters while the first is still constructing it
InstanceEnterUnguarded(c) ==
    /\ env.proc = "running"
    /\ pc[c] = "ctor"
    /\ inst \in {"uninit", "busy"}
    /\ inst' = "busy"
    /\ pc' = [pc EXCEPT ![c] = "init"]
    /\ UNCHANGED <<client, easy, heap, env, session, built, count, caFile,
                 upload, forms, out, last>>

\* instance(): the static is not constructed and no thread is constructing
\* it; this thread takes the initialization guard (the others wait)
InstanceEnter(c) ==
    /\ env.proc = "running"
    /\ pc[c] = "ctor"
    /\ inst = "uninit"
    /\ inst' = "busy"
    /\ pc' = [pc EXCEPT ![c] = "init"]
    /\ UNCHANGED <<client, easy, heap, env, session, built, count, caFile,
                 upload, forms, out, last>>

\* curl_global_init(CURL_GLOBAL_ALL) returned eCode
CurlGlobalInit(e, eCode) ==
    IF eCode = CURLE_OK THEN [e EXCEPT !.inits = @ + 1]
    ELSE [e EXCEPT !.failures = @ + 1]

\* variant of CurlHandleThrows: eCode is not checked
CurlHandleNeverThrows(eCode) == FALSE

\* `if (eCode != CURLE_OK) throw std::runtime_error{...}`
CurlHandleThrows(eCode) == eCode # CURLE_OK

\* CurlHandle::CurlHandle, run by the thread that holds the guard
CurlHandleCtor(c, eCode) ==
    /\ env.proc = "running"
    /\ pc[c] = "init"
    /\ env' = CurlGlobalInit(env, eCode)
    /\ IF CurlHandleThrows(eCode)
       THEN \* the static stays unconstructed, the exception leaves the
            \* CHTTPClient constructor
            /\ inst' = "uninit"
            /\ pc' = [pc EXCEPT ![c] = "threw"]
            /\ last' = Call(c, "CHTTPClient", <<>>, FALSE, <<>>)
            /\ UNCHANGED <<client, easy, session, count, out>>
       ELSE /\ inst' = "done"
            /\ Constructed(c)
    /\ UNCHANGED <<heap, built, caFile,
                 upload, forms>>

\* the caller catches the std::runtime_error: no object was constructed
CatchError(c) ==
    /\ env.proc = "running"
    /\ pc[c] = "threw"
    /\ pc' = [pc EXCEPT ![c] = "dead"]
    /\ UNCHANGED <<client, easy, heap, inst, env, session, built, count, caFile,
                 upload, forms, out, last>>

\* nobody catches it: std::terminate, no static destructor runs
Terminate(c) ==
    /\ env.proc = "running"
    /\ pc[c] = "threw"
    /\ env' = [env EXCEPT !.proc = "aborted"]
    /\ UNCHANGED <<client, pc, easy, heap, inst, session, built, count, caFile,
                 upload, forms, out, last>>

\* the thread function returns and the thread is joined
ThreadExit(c) ==
    /\ env.proc = "running"
    /\ pc[c] = "dead"
    /\ pc' = [pc EXCEPT ![c] = "joined"]
    /\ UNCHANGED <<client, easy, heap, inst, env, session, built, count, caFile,
                 upload, forms, out, last>>

\* CurlHandle::~CurlHandle runs at exit iff the static was constructed
StaticDtorEnv(e, i) ==
    IF i = "done" THEN [e EXCEPT !.cleanups = @ + 1] ELSE e

\* main returns after joining every thread: static destructors run
ProcessExit ==
    /\ env.proc = "running"
    /\ \A c \in Clients : pc[c] = "joined"
    /\ env' = [StaticDtorEnv(env, inst) EXCEPT !.proc = "exited"]
    /\ inst' = IF inst = "done" THEN "destroyed" ELSE inst
    /\ UNCHANGED <<client, pc, easy, heap, session, built, count, caFile,
                 upload, forms, out, last>>

\* the CHTTPClient objects that exist
Live == {c \in Clients : pc[c] = "alive"}
LiveCount == Cardinality(Live)

----------------------------------------------------------------------------
(* Requests                                                                *)

\* what a request leaves alone
reqFrame == <<pc, inst, session, built, count, caFile, upload, forms>>

\* the caller's objects as it declares them for a request, beside the local
\* file that is on disk
Outputs(file) == NoOutputs([file |-> file])

\* variant of Refused: curl_easy_reset is called before the usage checks
RefusedAfterReset(c, op, args, log) ==
    /\ last' = Call(c, op, args, FALSE, log)
    /\ out' = [out EXCEPT ![c] = Outputs(@.file)]
    /\ easy' = [easy EXCEPT ![c] = CurlEasyReset(@)]
    /\ UNCHANGED <<client, heap, env>>

\* the request returns false before it touches the engine
Refused(c, op, args, log) ==
    /\ last' = Call(c, op, args, FALSE, log)
    /\ out' = [out EXCEPT ![c] = Outputs(@.file)]
    /\ UNCHANGED <<client, easy, heap, env>>

\* SetProgressFnCallback
SetProgressFnCallbackFields(cl, pOwner, fnCallback) ==
    [cl EXCEPT !.m_ProgressStruct = [pOwner       |-> pOwner,
                                     pCurl        |-> cl.m_pCurlSession,
                                     dLastRunTime |-> 0],
               !.m_fnProgressCallback   = fnCallback,
               !.m_bProgressCallbackSet = TRUE]

SetProgressFnCallback(c, pOwner, fnCallback) ==
    /\ pc[c] = "alive"
    /\ env.proc = "running"
    /\ client' = [client EXCEPT
                     ![c] = SetProgressFnCallbackFields(@, pOwner, fnCallback)]
    /\ last' = Call(c, "SetProgressFnCallback", <<fnCallback.kind>>, TRUE,
                    <<>>)
    /\ out' = [out EXCEPT ![c] = NoOutputs(@)]
    /\ UNCHANGED <<pc, easy, heap, inst, env, session, built, count, caFile,
                   upload, forms>>

\* GetProgressFnCallback: m_fnProgressCallback.target<int(*)(void*, double,
\* double, double, double)>(), the address of the stored function pointer
\* (1 stands for it) when the std::function holds a plain function pointer,
\* nullptr when it holds a callable of another type or nothing
GetProgressFnCallback(cl) ==
    IF cl.m_fnProgressCallback.kind = "function" THEN 1 ELSE NULL

\* *GetProgressFnCallback() in Perform, evaluated when a progress callback
\* is set: the values the expression can have; reading through nullptr is
\* undefined
ProgressTarget(cl) ==
    IF ~cl.m_bProgressCallbackSet THEN {NoCallable}
    ELSE IF GetProgressFnCallback(cl) # NULL THEN {cl.m_fnProgressCallback}
    ELSE {SIGSEGV, WILD}

\* the process is killed inside Perform, in the request op
Crashed(c, op, file) ==
    /\ last' = Call(c, "SIGSEGV", <<op>>, FALSE, <<>>)
    /\ env' = [env EXCEPT !.proc = "aborted"]
    /\ out' = [out EXCEPT ![c] = Outputs(file)]
    /\ UNCHANGED <<client, easy, heap>>

\* the body blocks the engine hands to the write callback
BodyDelivered(o, x) == IF IsSet(o, "CURLOPT_NOBODY") THEN <<>> ELSE x.body

\* GetText between the usage checks and Perform
GetTextOpts(o) ==
    LET o1 == CurlEasyReset(o)
        o2 == SetOpt(o1, "CURLOPT_HTTPGET", 1)
        o3 == SetOpt(o2, "CURLOPT_WRITEFUNCTION", "WriteInStringCallback")
    IN  SetOpt(o3, "CURLOPT_WRITEDATA", "&strOutput")

GetText(c, strURL, strOutput, x) ==
    LET cl  == client[c]
        cl1 == CheckURL(cl, strURL)
    IN  /\ pc[c] = "alive"
        /\ env.proc = "running"
        /\ IF strURL = <<>>
           THEN Refused(c, "GetText", <<strURL>>,
                        LogIf(cl.m_eSettingsFlags, Msg(LOG_ERROR_EMPTY_HOST_MSG)))
           ELSE IF cl.m_pCurlSession = NULL
           THEN Refused(c, "GetText", <<strURL>>,
                        LogIf(cl.m_eSettingsFlags,
                              Msg(LOG_ERROR_CURL_NOT_INIT_MSG)))
           ELSE \E pfn \in ProgressTarget(cl1) :
                LET o2 == PerformOpts(GetTextOpts(Aged(easy[c])), cl1, caFile,
                                      pfn)
                IN
                IF pfn = SIGSEGV THEN Crashed(c, "GetText", out[c].file)
                ELSE
                /\ CanHappen(x, o2)
                /\ env' = env
                /\ client' = [client EXCEPT ![c] = PerformFields(cl1)]
                /\ easy' = [easy EXCEPT ![c] = o2]
                /\ heap' = PerformHeap(heap, c, cl1)
                /\ out' = [out EXCEPT
                              ![c] = [Outputs(@.file) EXCEPT
                                  !.strOutput =
                                      WriteAppend(strOutput, BodyDelivered(o2, x)),
                                  !.lHTTPStatusCode = CurlEasyGetInfo(x)]]
                /\ last' = CallX(c, "GetText", <<strURL>>, x.res = CURLE_OK,
                                 IF x.res # CURLE_OK
                                 THEN LogIf(cl1.m_eSettingsFlags,
                                            Fmt(LOG_ERROR_CURL_REQ_FAILURE_FORMAT,
                                                cl1.m_strURL, x.res,
                                                CurlEasyGetInfo(x)))
                                 ELSE <<>>,
                                 x)
        /\ UNCHANGED reqFrame

\* DownloadFile between the usage checks and the opening of the file
DownloadFileReset(o) == CurlEasyReset(o)

\* DownloadFile once the file is open, up to Perform
DownloadFileOpts(o) ==
    LET o1 == SetOpt(o, "CURLOPT_HTTPGET", 1)
        o2 == SetOpt(o1, "CURLOPT_WRITEFUNCTION", "WriteToFileCallback")
    IN  SetOpt(o2, "CURLOPT_WRITEDATA", "&ofsOutput")

\* variant of DownloadedFile: remove() is never called
DownloadedFileNeverRemoved(body, code) == [exists |-> TRUE, data |-> body]

\* the local file after the transfer: written, then removed unless 200
DownloadedFile(body, code) ==
    IF code # 200 THEN [exists |-> FALSE, data |-> <<>>]
    ELSE [exists |-> TRUE, data |-> body]

\* DownloadFile when ofsOutput could not be opened
DownloadFileNotOpenRet(cl) == ~FlagSet(cl.m_eSettingsFlags, ENABLE_LOG)

DownloadFile(c, strLocalFile, strURL, opened, x) ==
    LET cl  == client[c]
        cl1 == CheckURL(cl, strURL)
        o1  == DownloadFileReset(Aged(easy[c]))
        args == <<strURL>>
    IN  /\ pc[c] = "alive"
        /\ env.proc = "running"
        /\ IF strURL = <<>> \/ strLocalFile = <<>>
           THEN Refused(c, "DownloadFile", args, <<>>)
           ELSE IF cl.m_pCurlSession = NULL
           THEN Refused(c, "DownloadFile", args,
                        LogIf(cl.m_eSettingsFlags,
                              Msg(LOG_ERROR_CURL_NOT_INIT_MSG)))
           ELSE IF opened
           THEN \E pfn \in ProgressTarget(cl1) :
                LET o2 == PerformOpts(DownloadFileOpts(o1), cl1, caFile, pfn)
                IN
                IF pfn = SIGSEGV
                THEN Crashed(c, "DownloadFile", [exists |-> TRUE, data |-> <<>>])
                ELSE
                /\ CanHappen(x, o2)
                /\ env' = env
                /\ client' = [client EXCEPT ![c] = PerformFields(cl1)]
                /\ easy' = [easy EXCEPT ![c] = o2]
                /\ heap' = PerformHeap(heap, c, cl1)
                /\ out' = [out EXCEPT
                              ![c] = [Outputs(DownloadedFile(
                                                  BodyDelivered(o2, x),
                                                  CurlEasyGetInfo(x)))
                                      EXCEPT !.lHTTPStatusCode =
                                                 CurlEasyGetInfo(x)]]
                /\ last' = CallX(c, "DownloadFile", args, x.res = CURLE_OK,
                                 IF x.res # CURLE_OK
                                 THEN LogIf(cl1.m_eSettingsFlags,
                                        Fmt(LOG_ERROR_CURL_DOWNLOAD_FAILURE_FORMAT,
                                            strURL, x.res, CurlEasyGetInfo(x)))
                                 ELSE <<>>,
                                 x)
           ELSE /\ client' = [client EXCEPT ![c] = cl1]
                /\ easy' = [easy EXCEPT ![c] = o1]
                /\ last' = Call(c, "DownloadFile", args,
                                DownloadFileNotOpenRet(cl1),
                                LogIf(cl1.m_eSettingsFlags,
                                      Fmt(LOG_ERROR_DOWNLOAD_FILE_FORMAT,
                                          strLocalFile, 0, 0)))
                /\ out' = [out EXCEPT ![c] = Outputs(@.file)]
                /\ UNCHANGED <<heap, env>>
        /\ UNCHANGED reqFrame

STR_EXPECT == <<"E", "x", "p", "e", "c", "t", ":">>

\* variant of UploadFormOpts: CURLOPT_HTTPPOST is set without the test of
\* data.m_pFormPost
UploadFormOptsAlwaysBody(o, form) ==
    LET o1 == CurlEasyReset(o)
        o2 == SetOpt(o1, "CURLOPT_POST", 1)
        o3 == SetOpt(o2, "CURLOPT_HTTPPOST", form)
    IN  SetOpt(o3, "CURLOPT_WRITEFUNCTION", "ThrowAwayCallback")

\* UploadForm between the usage checks and Perform; form is data.m_pFormPost
UploadFormOpts(o, form) ==
    LET o1 == CurlEasyReset(o)
        o2 == SetOpt(o1, "CURLOPT_POST", 1)
        o3 == SetOptIf(form # NULL, o2, "CURLOPT_HTTPPOST", form)
    IN  SetOpt(o3, "CURLOPT_WRITEFUNCTION", "ThrowAwayCallback")

UploadForm(c, strURL, form, x) ==
    LET cl  == client[c]
        cl1 == AddHeaderFields(CheckURL(cl, strURL), STR_EXPECT)
    IN  /\ pc[c] = "alive"
        /\ env.proc = "running"
        /\ IF strURL = <<>>
           THEN Refused(c, "UploadForm", <<strURL, form>>,
                        LogIf(cl.m_eSettingsFlags, Msg(LOG_ERROR_EMPTY_HOST_MSG)))
           ELSE IF cl.m_pCurlSession = NULL
           THEN Refused(c, "UploadForm", <<strURL, form>>,
                        LogIf(cl.m_eSettingsFlags,
                              Msg(LOG_ERROR_CURL_NOT_INIT_MSG)))
           ELSE \E pfn \in ProgressTarget(cl1) :
                LET o2 == PerformOpts(UploadFormOpts(Aged(easy[c]), form), cl1,
                                      caFile, pfn)
                IN
                IF pfn = SIGSEGV THEN Crashed(c, "UploadForm", out[c].file)
                ELSE
                /\ CanHappen(x, o2)
                /\ env' = env
                /\ client' = [client EXCEPT ![c] = PerformFields(cl1)]
                /\ easy' = [easy EXCEPT ![c] = o2]
                /\ heap' = PerformHeap(AddHeaderHeap(heap, c, cl), c, cl1)
                /\ out' = [out EXCEPT
                              ![c] = [Outputs(@.file) EXCEPT
                                         !.lHTTPStatusCode = CurlEasyGetInfo(x)]]
                /\ last' = CallX(c, "UploadForm", <<strURL, form>>,
                                 x.res = CURLE_OK,
                                 IF x.res # CURLE_OK
                                 THEN LogIf(cl1.m_eSettingsFlags,
                                            Fmt(LOG_ERROR_CURL_REQ_FAILURE_FORMAT,
                                                cl1.m_strURL, x.res,
                                                CurlEasyGetInfo(x)))
                                 ELSE <<>>,
                                 x)
        /\ UNCHANGED reqFrame

----------------------------------------------------------------------------
(* REST requests                                                           *)

STR_COLON_SPACE == <<":", " ">>

\* InitRestRequest, the loop over Headers: AddHeader(first + ": " + second)
\* for each entry; Headers is the map in its iteration order
RECURSIVE AddRestHeaders(_, _)
AddRestHeaders(cl, Headers) ==
    IF Headers = <<>> THEN cl
    ELSE AddRestHeaders(
             AddHeaderFields(cl, Head(Headers)[1] \o STR_COLON_SPACE
                                 \o Head(Headers)[2]),
             Tail(Headers))

\* variant of InitRestRequestOpts: curl_easy_reset is not called
InitRestRequestOptsNoReset(o) ==
    LET o2 == SetOpt(o, "CURLOPT_WRITEFUNCTION", "RestWriteCallback")
        o3 == SetOpt(o2, "CURLOPT_WRITEDATA", "&Response")
        o4 == SetOpt(o3, "CURLOPT_HEADERFUNCTION", "RestHeaderCallback")
    IN  SetOpt(o4, "CURLOPT_HEADERDATA", "&Response")

\* InitRestRequest: what it sets on the handle after the usage checks
InitRestRequestOpts(o) ==
    LET o1 == CurlEasyReset(o)
        o2 == SetOpt(o1, "CURLOPT_WRITEFUNCTION", "RestWriteCallback")
        o3 == SetOpt(o2, "CURLOPT_WRITEDATA", "&Response")
        o4 == SetOpt(o3, "CURLOPT_HEADERFUNCTION", "RestHeaderCallback")
    IN  SetOpt(o4, "CURLOPT_HEADERDATA", "&Response")

\* static_cast<long>(n) of a size_t n no object is too large for, where long
\* holds the integers -half .. half - 1; half = 0 stands for a long as wide
\* as size_t, which holds every length
StaticCastLong(n, half) ==
    IF half = 0 THEN n ELSE ((n + half) % (2 * half)) - half

\* Put, from CURLOPT_PUT to CURLOPT_INFILESIZE, for a Payload of usLength
PutUploadOpts(o, usLength, half) ==
    LET o1 == SetOpt(o, "CURLOPT_PUT", 1)
        o2 == SetOpt(o1, "CURLOPT_UPLOAD", 1)
        o3 == SetOpt(o2, "CURLOPT_READFUNCTION", "RestReadCallback")
        o4 == SetOpt(o3, "CURLOPT_READDATA", "&Payload")
    IN  SetOpt(o4, "CURLOPT_INFILESIZE", StaticCastLong(usLength, half))

\* what each verb sets between InitRestRequest and Perform
VerbOpts(o, verb, data) ==
    CASE verb = "Head" ->
            SetOpt(SetOpt(o, "CURLOPT_CUSTOMREQUEST", "HEAD"),
                   "CURLOPT_NOBODY", 1)
      [] verb = "Get" -> SetOpt(o, "CURLOPT_HTTPGET", 1)
      [] verb = "Del" -> SetOpt(o, "CURLOPT_CUSTOMREQUEST", "DELETE")
      [] verb = "Post" ->
            SetOpt(SetOpt(SetOpt(o, "CURLOPT_POST", 1),
                          "CURLOPT_POSTFIELDS", data),
                   "CURLOPT_POSTFIELDSIZE", Len(data))
      [] verb \in {"Put", "PutBuffer"} ->
            \* the bodies drawn for the requests are shorter than 2^31
            \* bytes: the cast gives their length whatever the width of long
            PutUploadOpts(o, Len(data), 0)

\* variant of PostRestRequestResponse: CURLINFO_RESPONSE_CODE is not read
PostRestRequestResponseNoCode(Response, ePerformCode, lHttpCode) ==
    IF ePerformCode # CURLE_OK
    THEN [Response EXCEPT !.strBody = <<>>, !.iCode = -1]
    ELSE Response

\* variant of PostRestRequestResponse: strBody is not cleared on failure
PostRestRequestResponseKeepsBody(Response, ePerformCode, lHttpCode) ==
    IF ePerformCode # CURLE_OK
    THEN [Response EXCEPT !.iCode = -1]
    ELSE [Response EXCEPT !.iCode = lHttpCode]

\* PostRestRequest: the response record after the transfer
PostRestRequestResponse(Response, ePerformCode, lHttpCode) ==
    IF ePerformCode # CURLE_OK
    THEN [Response EXCEPT !.strBody = <<>>, !.iCode = -1]
    ELSE [Response EXCEPT !.iCode = lHttpCode]

\* variant of PostRestRequestRet: an aborted transfer is not a failure
PostRestRequestRetAbortOk(ePerformCode) ==
    ePerformCode \in {CURLE_OK, CURLE_ABORTED_BY_CALLBACK}

PostRestRequestRet(ePerformCode) == ePerformCode = CURLE_OK

PostRestRequestLog(cl, ePerformCode) ==
    IF ePerformCode # CURLE_OK
    THEN LogIf(cl.m_eSettingsFlags,
               Fmt(LOG_ERROR_CURL_REST_FAILURE_FORMAT, cl.m_strURL,
                   ePerformCode, 0))
    ELSE <<>>

\* variant of ResponseReceived: the response is cleared before the transfer
ResponseReceivedCleared(Response, o, x) ==
    [Response EXCEPT
        !.mapHeaders = HeadersReceived(EmptyMap, x.headers),
        !.strBody = WriteAppend(<<>>, BodyDelivered(o, x))]

\* the response record while the transfer runs: header lines are parsed,
\* body blocks appended
ResponseReceived(Response, o, x) ==
    [Response EXCEPT
        !.mapHeaders = HeadersReceived(@, x.headers),
        !.strBody = WriteAppend(@, BodyDelivered(o, x))]

\* Head, Get, Del, Post and Put: InitRestRequest, the verb's options,
\* Perform, PostRestRequest
Rest(c, verb, strUrl, Headers, data, Response, x) ==
    LET cl   == client[c]
        cl1  == AddRestHeaders(CheckURL(cl, strUrl), Headers)
        args == <<strUrl>>
    IN  /\ pc[c] = "alive"
        /\ env.proc = "running"
        /\ IF strUrl = <<>>
           THEN Refused(c, verb, args,
                        LogIf(cl.m_eSettingsFlags, Msg(LOG_ERROR_EMPTY_HOST_MSG)))
           ELSE IF cl.m_pCurlSession = NULL
           THEN Refused(c, verb, args,
                        LogIf(cl.m_eSettingsFlags,
                              Msg(LOG_ERROR_CURL_NOT_INIT_MSG)))
           ELSE \E pfn \in ProgressTarget(cl1) :
                LET o2 == PerformOpts(VerbOpts(InitRestRequestOpts(
                                                   Aged(easy[c])),
                                               verb, data),
                                      cl1, caFile, pfn)
                IN
                IF pfn = SIGSEGV THEN Crashed(c, verb, out[c].file)
                ELSE
                /\ CanHappen(x, o2)
                /\ env' = env
                /\ client' = [client EXCEPT ![c] = PerformFields(cl1)]
                /\ easy' = [easy EXCEPT ![c] = o2]
                /\ heap' = PerformHeap(
                               IF Headers # <<>> THEN AddHeaderHeap(heap, c, cl)
                               ELSE heap,
                               c, cl1)
                /\ out' = [out EXCEPT
                              ![c] = [Outputs(@.file) EXCEPT
                                  !.Response =
                                      PostRestRequestResponse(
                                          ResponseReceived(Response, o2, x),
                                          x.res, CurlEasyGetInfo(x))]]
                /\ last' = CallX(c, verb, args, PostRestRequestRet(x.res),
                                 PostRestRequestLog(cl1, x.res), x)
        /\ UNCHANGED reqFrame

\* SetHTTPS
SetHTTPS(c, bEnableHTTPS) ==
    /\ pc[c] = "alive"
    /\ client' = [client EXCEPT ![c].m_bHTTPS = bEnableHTTPS]
    /\ last' = Call(c, "SetHTTPS", <<bEnableHTTPS>>, TRUE, <<>>)
    /\ out' = [out EXCEPT ![c] = NoOutputs(@)]
    /\ UNCHANGED <<pc, easy, heap, inst, env, session, built, count, caFile,
                 upload, forms>>

----------------------------------------------------------------------------
(* The payload of Put and the form chains of PostFormInfo                  *)

\* UploadObject::UploadObject
NewUploadObject == [pszData |-> NULL, usLength |-> 0]

\* the Payload a Put declares for the buffer Data, with what the engine has
\* obtained from it so far: pszData is the index in Data of the next byte,
\* wire the bytes copied into the engine's buffers, in order, calls the
\* calls of the read callback and chunks those that returned bytes, ret what
\* the last call returned
PutPayload(Data, usCurlSize) ==
    [ Data       |-> Data,
      Payload    |-> [pszData |-> 1, usLength |-> Len(Data)],
      usCurlSize |-> usCurlSize,
      wire       |-> <<>>,
      calls      |-> 0,
      chunks     |-> 0,
      ret        |-> 0 ]

\* no Put is under way
NoUpload == PutPayload(<<>>, 0)

\* variant of RestReadCallback: the block size the engine asks for is copied
\* whatever is left
RestReadCallbackFullBlock(u) ==
    LET usCopySize == u.usCurlSize
        pCurlData  == SubSeq(u.Data, u.Payload.pszData,
                             Min(Len(u.Data),
                                 u.Payload.pszData + usCopySize - 1))
    IN  [u EXCEPT !.Payload.usLength = @ - usCopySize,
                  !.Payload.pszData  = @ + usCopySize,
                  !.wire   = @ \o pCurlData,
                  !.calls  = @ + 1,
                  !.chunks = IF usCopySize # 0 THEN @ + 1 ELSE @,
                  !.ret    = usCopySize]

\* RestReadCallback(pCurlData, usBlockCount, usBlockSize, &Payload) with
\* usBlockCount * usBlockSize = u.usCurlSize: usCopySize bytes are copied
\* from pszData, usLength is decremented and pszData advanced by as many
RestReadCallback(u) ==
    LET usCopySize == IF u.Payload.usLength < u.usCurlSize
                      THEN u.Payload.usLength ELSE u.usCurlSize
        pCurlData  == SubSeq(u.Data, u.Payload.pszData,
                             u.Payload.pszData + usCopySize - 1)
    IN  [u EXCEPT !.Payload.usLength = @ - usCopySize,
                  !.Payload.pszData  = @ + usCopySize,
                  !.wire   = @ \o pCurlData,
                  !.calls  = @ + 1,
                  !.chunks = IF usCopySize # 0 THEN @ + 1 ELSE @,
                  !.ret    = usCopySize]

\* no PostFormInfo object has been declared; bad tells that the heap was
\* used after a free
NoForms == [obj |-> <<>>, chain |-> <<>>, bad |-> FALSE]

\* a PostFormInfo that is not declared yet, and PostFormInfo::PostFormInfo
NoPostFormInfo  == [state |-> "none", m_pFormPost |-> NULL,
                    m_pLastFormptr |-> NULL]
NewPostFormInfo == [state |-> "alive", m_pFormPost |-> NULL,
                    m_pLastFormptr |-> NULL]

\* a form chain: its parts, the parts no pointer of the chain leads to any
\* more, and the calls of curl_formfree on it
NoChain == [parts |-> 0, lost |-> 0, frees |-> 0]

\* the chain curl_formadd allocates when *httppost is null
NewChainId(f) ==
    CHOOSE k \in DOMAIN f.chain :
        f.chain[k] = NoChain /\ \A j \in 1..(k - 1) : f.chain[j] # NoChain

\* PostFormInfo::PostFormInfo for object i
PostFormInfoCtor(f, i) == [f EXCEPT !.obj[i] = NewPostFormInfo]

\* the copy constructor the compiler generates: j gets the members of i
PostFormInfoCopy(f, i, j) == [f EXCEPT !.obj[j] = f.obj[i]]

\* curl_formadd(&m_pFormPost, &m_pLastFormptr, ...) of AddFormFile and
\* AddFormContent, when it succeeds: the new part is linked behind
\* *m_pLastFormptr (m_pLastFormptr is the number of the part it points to),
\* or becomes the chain when m_pLastFormptr is null
CurlFormAdd(f, i) ==
    LET ob == f.obj[i]
    IN  IF ob.m_pLastFormptr = NULL
        THEN LET k == NewChainId(f)
             IN  [f EXCEPT !.obj[i].m_pFormPost = k,
                           !.obj[i].m_pLastFormptr = 1,
                           !.chain[k].parts = 1]
        ELSE LET k == ob.m_pFormPost
             IN  [f EXCEPT !.obj[i].m_pLastFormptr = @ + 1,
                           !.chain[k].parts = ob.m_pLastFormptr + 1,
                           !.chain[k].lost =
                               @ + (f.chain[k].parts - ob.m_pLastFormptr),
                           !.bad = @ \/ f.chain[k].frees > 0]

\* PostFormInfo::~PostFormInfo for object i: curl_formfree on the chain if
\* m_pFormPost is not null
PostFormInfoDtor(f, i) ==
    LET k == f.obj[i].m_pFormPost
    IN  IF k # NULL
        THEN [f EXCEPT !.obj[i] = [state |-> "destroyed", m_pFormPost |-> NULL,
                                   m_pLastFormptr |-> NULL],
                       !.chain[k].frees = @ + 1,
                       !.bad = @ \/ f.chain[k].frees > 0]
        ELSE [f EXCEPT !.obj[i].state = "destroyed"]

\* a call on a PostFormInfo; a use of freed memory is undefined: the
\* allocator may notice it and abort the process, or not
FormCall(i, op, f) ==
    /\ env.proc = "running"
    /\ forms' = f
    /\ last' = Call(i, op, <<>>, TRUE, <<>>)
    /\ IF f.bad /\ ~forms.bad
       THEN \E proc \in {"running", "aborted"} :
                env' = [env EXCEPT !.proc = proc]
       ELSE env' = env
    /\ UNCHANGED <<client, pc, easy, heap, inst, session, built, count, caFile,
                   upload, out>>

----------------------------------------------------------------------------
(* Inputs                                                                  *)

URL_EMPTY  == <<>>
URL_PLAIN  == <<"a">>
URL_HTTP   == <<"h", "t", "t", "p", ":", "/", "/", "a">>
URL_HTTPS  == <<"H", "t", "t", "p", "s", ":", "/", "/", "a">>
UrlInputs  == {URL_EMPTY, URL_PLAIN}

HeadersMapInputs == {<<>>}
BodyInputs == {<<"d", "d">>}
FormInputs == {NULL, 1}
FileInputs == {<<>>, <<"f">>}

TRANSFER_OK   == Transfer(CURLE_OK, 200, <<"b">>,
                          <<HDR_STATUS, HDR_KEY_A, HDR_BLANK>>)
TRANSFER_FAIL == Transfer(CURLE_COULDNT_CONNECT, 0, <<>>, <<>>)
\* the transfer breaks off after a header line and a body block
TRANSFER_CUT  == Transfer(CURLE_RECV_ERROR, 200, <<"b">>, <<HDR_KEY_A>>)
TransferInputs == {TRANSFER_OK, TRANSFER_FAIL, TRANSFER_CUT}

FlagInputs == {NO_FLAGS, ALL_FLAGS}
HeaderInputs == {<<"A", ":", "1">>}
GlobalInitCodes == {CURLE_OK, CURLE_FAILED_INIT}

----------------------------------------------------------------------------
(* One thread, one object: every call of the public interface              *)

Init ==
    /\ client = [c \in {1} |-> NewClient]
    /\ pc = [c \in {1} |-> "alive"]
    /\ easy = [c \in {1} |-> NoOptions]
    /\ heap = [handles |-> {}, allocs |-> 0, lists |-> {}, bad |-> FALSE]
    /\ inst = "done"
    /\ env = [inits |-> 1, failures |-> 0, cleanups |-> 0, proc |-> "running"]
    /\ session = [c \in {1} |-> "Uninitialized"]
    /\ built = [c \in {1} |-> 1]
    /\ count = 1
    /\ caFile = <<>>
    /\ upload = NoUpload
    /\ forms = NoForms
    /\ out = [c \in {1} |-> NewOutputs]
    /\ last = Call(1, "CHTTPClient", <<>>, TRUE, <<>>)

DoInitSession ==
    \E c \in Clients, bHTTPS \in BOOLEAN, f \in FlagInputs, h \in CurlEasyInit :
        InitSession(c, bHTTPS, f, h)
DoCleanupSession == \E c \in Clients : CleanupSession(c)
DoDestroy == \E c \in Clients : Destroy(c)
DoAddHeader == \E c \in Clients, s \in HeaderInputs : AddHeader(c, s)

DoSetHTTPS == \E c \in Clients, b \in BOOLEAN : SetHTTPS(c, b)
DoGetText ==
    \E c \in Clients, u \in UrlInputs, x \in TransferInputs :
        GetText(c, u, <<>>, x)
DoDownloadFile ==
    \E c \in Clients, f \in FileInputs, u \in UrlInputs, opened \in BOOLEAN,
       x \in TransferInputs : DownloadFile(c, f, u, opened, x)
DoUploadForm ==
    \E c \in Clients, u \in UrlInputs, form \in FormInputs,
       x \in TransferInputs : UploadForm(c, u, form, x)
DoHead ==
    \E c \in Clients, u \in UrlInputs, hs \in HeadersMapInputs,
       x \in TransferInputs :
        Rest(c, "Head", u, hs, <<>>, NewHttpResponse, x)
DoGet ==
    \E c \in Clients, u \in UrlInputs, hs \in HeadersMapInputs,
       x \in TransferInputs :
        Rest(c, "Get", u, hs, <<>>, NewHttpResponse, x)
DoDel ==
    \E c \in Clients, u \in UrlInputs, hs \in HeadersMapInputs,
       x \in TransferInputs :
        Rest(c, "Del", u, hs, <<>>, NewHttpResponse, x)
DoPost ==
    \E c \in Clients, u \in UrlInputs, hs \in HeadersMapInputs,
       d \in BodyInputs, x \in TransferInputs :
        Rest(c, "Post", u, hs, d, NewHttpResponse, x)
DoPut ==
    \E c \in Clients, u \in UrlInputs, hs \in HeadersMapInputs,
       d \in BodyInputs, x \in TransferInputs :
        Rest(c, "Put", u, hs, d, NewHttpResponse, x)
DoPutBuffer ==
    \E c \in Clients, u \in UrlInputs, hs \in HeadersMapInputs,
       d \in BodyInputs, x \in TransferInputs :
        Rest(c, "PutBuffer", u, hs, d, NewHttpResponse, x)

Next ==
    \/ DoInitSession
    \/ DoCleanupSession
    \/ DoDestroy
    \/ DoAddHeader
    \/ DoGetText
    \/ DoDownloadFile
    \/ DoUploadForm
    \/ DoHead
    \/ DoGet
    \/ DoDel
    \/ DoPost
    \/ DoPut
    \/ DoPutBuffer

Spec == Init /\ [][Next]_vars

----------------------------------------------------------------------------
(* Several threads, each constructing and destroying its own objects       *)

InitEnv ==
    /\ client = [c \in 1..NThreads |-> NewClient]
    /\ pc = [c \in 1..NThreads |-> "idle"]
    /\ easy = [c \in 1..NThreads |-> NoOptions]
    /\ heap = [handles |-> {}, allocs |-> 0, lists |-> {}, bad |-> FALSE]
    /\ inst = "uninit"
    /\ env = [inits |-> 0, failures |-> 0, cleanups |-> 0, proc |-> "running"]
    /\ session = [c \in 1..NThreads |-> "Uninitialized"]
    /\ built = [c \in 1..NThreads |-> 0]
    /\ count = 0
    /\ caFile = <<>>
    /\ upload = NoUpload
    /\ forms = NoForms
    /\ out = [c \in 1..NThreads |-> NewOutputs]
    /\ last = Call(0, "main", <<>>, TRUE, <<>>)

DoCtorCall == \E c \in Clients : CtorCall(c)
DoInstanceReturn == \E c \in Clients : InstanceReturn(c)
DoInstanceEnter == \E c \in Clients : InstanceEnter(c)
DoCurlHandleCtor ==
    \E c \in Clients, eCode \in GlobalInitCodes : CurlHandleCtor(c, eCode)
DoCatchError == \E c \in Clients : CatchError(c)
DoTerminate == \E c \in Clients : Terminate(c)
DoThreadExit == \E c \in Clients : ThreadExit(c)
DoInitSessionEnv ==
    \E c \in Clients, h \in CurlEasyInit :
        env.proc = "running" /\ InitSession(c, FALSE, ALL_FLAGS, h)
DoCleanupSessionEnv ==
    \E c \in Clients : env.proc = "running" /\ CleanupSession(c)
DoDestroyEnv == \E c \in Clients : env.proc = "running" /\ Destroy(c)

NextEnv ==
    \/ DoCtorCall
    \/ DoInstanceReturn
    \/ DoInstanceEnter
    \/ DoCurlHandleCtor
    \/ DoCatchError
    \/ DoTerminate
    \/ DoThreadExit
    \/ DoInitSessionEnv
    \/ DoCleanupSessionEnv
    \/ DoDestroyEnv
    \/ ProcessExit

SpecEnv == InitEnv /\ [][NextEnv]_vars

----------------------------------------------------------------------------
(* Properties                                                              *)

\* whether the last call triggered a transfer (curl_easy_perform was called)
Performed == last.xfer.res # NoTransfer.res

\* C1: the engine handle of an object is non-null exactly when its session
\* is Active, that is when an InitSession that returned true has not been
\* followed by a CleanupSession that returned true; right after the
\* constructor the handle is null and the session Uninitialized.
C1_HandleIffActive ==
    /\ \A c \in Clients :
          (client[c].m_pCurlSession # NULL) <=> (session[c] = "Active")
    /\ (last.op = "CHTTPClient" /\ last.ret) =>
          /\ client[last.c].m_pCurlSession = NULL
          /\ session[last.c] = "Uninitialized"

\* a request has made a transfer on the second session of the object
C1_Witness ==
    /\ Performed
    /\ heap.allocs = 2
    /\ client[last.c].m_pCurlSession = 2
    /\ session[last.c] = "Active"

\* C2: when a request method has triggered a transfer, no option in effect
\* on the handle was set by an earlier request; in particular the read
\* callback, the upload flag and the upload size of a Put are there only
\* after a Put.
C2_NoOptionLeftOver ==
    Performed =>
        /\ \A n \in DOMAIN easy[last.c] : ~easy[last.c][n].stale
        /\ last.op \notin {"Put", "PutBuffer"} =>
              /\ ~IsSet(easy[last.c], "CURLOPT_READFUNCTION")
              /\ ~IsSet(easy[last.c], "CURLOPT_READDATA")
              /\ ~IsSet(easy[last.c], "CURLOPT_UPLOAD")
              /\ ~IsSet(easy[last.c], "CURLOPT_INFILESIZE")

\* a Get has made a transfer on the handle on which an earlier DownloadFile
\* had left its file
C2_Witness ==
    /\ last.op = "Get"
    /\ last.xfer.res = CURLE_OK
    /\ heap.allocs = 1
    /\ out[last.c].file.exists
    /\ OptVal(easy[last.c], "CURLOPT_WRITEFUNCTION") = "RestWriteCallback"

\* C3: InitSession on an Active session returns false and leaves the handle,
\* the HTTPS flag and the settings flags as they were, whatever its arguments.
C3_DoubleInitKeepsSession ==
    [][ (last'.op = "InitSession" /\ client[last'.c].m_pCurlSession # NULL) =>
          /\ ~last'.ret
          /\ client'[last'.c].m_pCurlSession = client[last'.c].m_pCurlSession
          /\ client'[last'.c].m_bHTTPS = client[last'.c].m_bHTTPS
          /\ client'[last'.c].m_eSettingsFlags
                = client[last'.c].m_eSettingsFlags
          /\ heap' = heap ]_vars

\* InitSession was refused on an Active session although both arguments
\* differ from what is stored
C3_Witness ==
    /\ last.op = "InitSession"
    /\ ~last.ret
    /\ client[last.c].m_pCurlSession # NULL
    /\ last.args[1] # client[last.c].m_bHTTPS
    /\ last.args[2] # client[last.c].m_eSettingsFlags

\* C4: CleanupSession on an Uninitialized session returns false and changes
\* nothing; on an Active session it returns true, releases the handle and
\* the pending header list (each once) and leaves the session
\* Uninitialized; a cleanup right after a successful one returns false.
C4_Cleanup ==
    [][ last'.op = "CleanupSession" =>
          LET c == last'.c IN
          /\ IF client[c].m_pCurlSession = NULL
             THEN /\ ~last'.ret
                  /\ client' = client
                  /\ heap' = heap
                  /\ easy' = easy
             ELSE /\ last'.ret
                  /\ client'[c].m_pCurlSession = NULL
                  /\ client'[c].m_pHeaderlist = <<>>
                  /\ client[c].m_pCurlSession \in heap.handles
                  /\ heap'.handles = heap.handles \ {client[c].m_pCurlSession}
                  /\ heap'.lists = heap.lists \ {c}
                  /\ ~heap'.bad
          /\ (last.op = "CleanupSession" /\ last.c = c /\ last.ret)
                => ~last'.ret ]_vars

\* a cleanup that was refused after a session had been opened and cleaned
C4_Witness ==
    /\ last.op = "CleanupSession"
    /\ ~last.ret
    /\ heap.allocs >= 1
    /\ heap.handles = {}
    /\ client[last.c].m_pCurlSession = NULL

\* C5: InitSession(bHTTPS, flags) on an Uninitialized session returns true
\* and leaves a non-null handle, m_bHTTPS = bHTTPS and the settings flags =
\* flags when curl_easy_init gives a handle; it returns false and leaves the
\* handle null when curl_easy_init fails.
C5_InitSession ==
    [][ (last'.op = "InitSession" /\ client[last'.c].m_pCurlSession = NULL) =>
          LET c == last'.c IN
          IF heap'.allocs # heap.allocs
          THEN /\ last'.ret
               /\ client'[c].m_pCurlSession # NULL
               /\ client'[c].m_pCurlSession \in heap'.handles
               /\ session'[c] = "Active"
               /\ client'[c].m_bHTTPS = last'.args[1]
               /\ client'[c].m_eSettingsFlags = last'.args[2]
          ELSE /\ ~last'.ret
               /\ client'[c].m_pCurlSession = NULL
               /\ session'[c] = "Uninitialized" ]_vars

\* InitSession(true, NO_FLAGS) has succeeded on an object constructed with
\* HTTPS off and ALL_FLAGS
C5_Witness ==
    /\ last.op = "InitSession"
    /\ last.ret
    /\ last.args = <<TRUE, NO_FLAGS>>
    /\ client[last.c].m_bHTTPS
    /\ client[last.c].m_eSettingsFlags = NO_FLAGS
    /\ client[last.c].m_pCurlSession # NULL

\* C6: the destructor of an object whose session is Active releases the
\* handle and the pending header list, each once, and logs the not-cleaned
\* warning exactly when ENABLE_LOG is set; the destructor of an object whose
\* session is Uninitialized releases nothing and logs nothing.
C6_Destructor ==
    [][ last'.op = "~CHTTPClient" =>
          LET c == last'.c IN
          IF client[c].m_pCurlSession # NULL
          THEN /\ client[c].m_pCurlSession \in heap.handles
               /\ heap'.handles = heap.handles \ {client[c].m_pCurlSession}
               /\ heap'.lists = heap.lists \ {c}
               /\ ~heap'.bad
               /\ last'.log =
                     IF FlagSet(client[c].m_eSettingsFlags, ENABLE_LOG)
                     THEN <<Msg(LOG_WARNING_OBJECT_NOT_CLEANED)>>
                     ELSE <<>>
          ELSE /\ heap' = heap
               /\ last'.log = <<>> ]_vars

\* an object was destroyed with its session Active and logging enabled
C6_Witness ==
    /\ last.op = "~CHTTPClient"
    /\ last.log = <<Msg(LOG_WARNING_OBJECT_NOT_CLEANED)>>
    /\ heap.allocs >= 1
    /\ heap.handles = {}
    /\ heap.lists = {}

\* every thread has constructed and destroyed its objects and been joined
AllJoined == \A c \in Clients : pc[c] = "joined"

\* C7: with several threads constructing and destroying objects, the
\* library-wide initialization succeeds at most once and the library-wide
\* cleanup runs at most once, an object exists only after the initialization
\* has completed and before the cleanup, and at the exit of the process the
\* cleanup has run exactly when the initialization had succeeded.
C7_OneInitOneCleanup ==
    /\ env.inits <= 1
    /\ env.cleanups <= 1
    /\ LiveCount > 0 => (inst = "done" /\ env.inits = 1 /\ env.cleanups = 0)
    /\ env.cleanups = IF env.proc = "exited" THEN env.inits ELSE 0

\* every thread has built MaxRounds objects, all is joined and the process
\* has exited after one initialization and one cleanup
C7_Witness ==
    /\ env.proc = "exited"
    /\ \A c \in Clients : built[c] = MaxRounds
    /\ env.inits = 1
    /\ env.cleanups = 1

\* C8: the library-wide initialization happens exactly in the steps where
\* the number of live objects goes from 0 to 1 and the library-wide cleanup
\* exactly in the steps where it goes from 1 to 0.
C8_InitCleanupFollowLiveCount ==
    [][ /\ (LiveCount = 0 /\ LiveCount' = 1)
              <=> (env'.inits = env.inits + 1)
        /\ (LiveCount = 1 /\ LiveCount' = 0)
              <=> (env'.cleanups = env.cleanups + 1) ]_vars

C11_HeaderListReleased ==
    [][ last'.xfer.res # NoTransfer.res =>
          LET c == last'.c
              pending == client[c].m_pHeaderlist
          IN  /\ client'[c].m_pHeaderlist = <<>>
              /\ c \notin heap'.lists
              /\ ~heap'.bad
              /\ pending # <<>> =>
                    /\ c \in heap.lists
                    /\ IsSet(easy'[c], "CURLOPT_HTTPHEADER")
                    /\ SubSeq(OptVal(easy'[c], "CURLOPT_HTTPHEADER"),
                              1, Len(pending)) = pending
              /\ (pending = <<>> /\ last'.op # "UploadForm") =>
                    ~IsSet(easy'[c], "CURLOPT_HTTPHEADER") ]_vars

\* a transfer that failed was given the pending header list, which is
\* released and null now
C11_Witness ==
    /\ Performed
    /\ last.xfer.res # CURLE_OK
    /\ IsSet(easy[last.c], "CURLOPT_HTTPHEADER")
    /\ \E h \in HeaderInputs :
          OptVal(easy[last.c], "CURLOPT_HTTPHEADER") = <<h>>
    /\ client[last.c].m_pHeaderlist = <<>>
    /\ heap.lists = {}

\* the request methods, as `last.op` names them
RequestOps ==
    {"GetText", "DownloadFile", "UploadForm",
     "Head", "Get", "Del", "Post", "Put", "PutBuffer"}

\* C12: a request method called on an Uninitialized session or with an
\* empty URL returns false without a transfer and without touching the
\* handle, and leaves the object (stored URL, HTTPS flag, header list and
\* every other member), the allocations, the caller's objects and the local
\* file as they were.
C12_UsageErrorTouchesNothing ==
    [][ ( /\ last'.op \in RequestOps
          /\ \/ client[last'.c].m_pCurlSession = NULL
             \/ last'.args[1] = <<>> ) =>
          /\ ~last'.ret
          /\ last'.xfer = NoTransfer
          /\ client' = client
          /\ easy' = easy
          /\ heap' = heap
          /\ out'[last'.c] = Outputs(out[last'.c].file) ]_vars

\* a Post with an empty URL was refused on an Active session that has made
\* a transfer and holds a pending header, with a downloaded file on disk
C12_Witness ==
    /\ last.op = "Post"
    /\ ~last.ret
    /\ last.args[1] = <<>>
    /\ client[last.c].m_pCurlSession # NULL
    /\ client[last.c].m_strURL # <<>>
    /\ client[last.c].m_pHeaderlist # <<>>
    /\ IsSet(easy[last.c], "CURLOPT_URL")
    /\ out[last.c].file.exists

\* C13: with ENABLE_LOG set in the stored settings flags, every usage error
\* passes a message to the logger: a request method on an Uninitialized
\* session, a request method with an empty URL, InitSession on an Active
\* session.
C13_UsageErrorsLogged ==
    [][ ( /\ FlagSet(client[last'.c].m_eSettingsFlags, ENABLE_LOG)
          /\ \/ /\ last'.op \in RequestOps
                /\ \/ client[last'.c].m_pCurlSession = NULL
                   \/ last'.args[1] = <<>>
             \/ /\ last'.op = "InitSession"
                /\ client[last'.c].m_pCurlSession # NULL ) =>
          last'.log # <<>> ]_vars

\* C14: while the stored settings flags of an object with an Active session
\* lack ENABLE_LOG, no call on the object passes a message to the logger.
C14_LoggerGatedByStoredFlag ==
    [][ ( /\ client[last'.c].m_pCurlSession # NULL
          /\ ~FlagSet(client[last'.c].m_eSettingsFlags, ENABLE_LOG) ) =>
          last'.log = <<>> ]_vars

----------------------------------------------------------------------------
(* One object: the settings that reach the engine (scheme, proxy, TLS)     *)

\* SetProxy
SetProxy(c, strProxy) ==
    /\ pc[c] = "alive"
    /\ client' = [client EXCEPT ![c] = SetProxyFields(@, strProxy)]
    /\ last' = Call(c, "SetProxy", <<strProxy>>, TRUE, <<>>)
    /\ out' = [out EXCEPT ![c] = NoOutputs(@)]
    /\ UNCHANGED <<pc, easy, heap, inst, env, session, built, count, caFile,
                 upload, forms>>

\* GetProxy, GetHTTPS
GetProxy(cl) == cl.m_strProxy
GetHTTPS(cl) == cl.m_bHTTPS

\* the value an option has for a transfer: the one set, or the default of
\* the engine (peer verification on, host verification on)
CurlDefault(name) ==
    CASE name = "CURLOPT_SSL_VERIFYPEER" -> 1
      [] name = "CURLOPT_SSL_VERIFYHOST" -> 2
      [] OTHER -> 0
OptInEffect(o, name) == IF IsSet(o, name) THEN OptVal(o, name) ELSE CurlDefault(name)

URL_SHORT   == <<"h", "t", "t", "p">>
UrlSchemeInputs == {URL_PLAIN, URL_SHORT, URL_HTTP, URL_HTTPS}

PROXY_PLAIN == <<"x">>
PROXY_HTTP  == <<"h", "t", "t", "p", ":", "/", "/", "x">>
PROXY_HTTPS == <<"H", "t", "t", "p", "s", ":", "/", "/", "x">>
PROXY_NAME  == <<"h", "t", "t", "p", "x">>
ProxyInputs == {<<>>, PROXY_PLAIN, PROXY_HTTP, PROXY_HTTPS, PROXY_NAME}

\* the settings bitmasks: every combination of the three named flags, and
\* ALL_FLAGS
FlagMasks == {BitAnd(ALL_FLAGS, f) : f \in 0..(ENABLE_LOG + VERIFY_PEER + VERIFY_HOST)}
                 \cup {ALL_FLAGS}

\* the session is opened once, with any of the bitmasks
DoInitSessionMasks ==
    \E c \in Clients, bHTTPS \in BOOLEAN, f \in FlagMasks,
       h \in CurlEasyInit \ {NULL} :
        client[c].m_pCurlSession = NULL /\ InitSession(c, bHTTPS, f, h)
DoSetProxy == \E c \in Clients, p \in ProxyInputs : SetProxy(c, p)
DoGetTextSchemes ==
    \E c \in Clients, u \in UrlSchemeInputs : GetText(c, u, <<>>, TRANSFER_OK)
DoGetSchemes ==
    \E c \in Clients, u \in UrlSchemeInputs :
        Rest(c, "Get", u, <<>>, <<>>, NewHttpResponse, TRANSFER_OK)

NextSettings ==
    \/ DoInitSessionMasks
    \/ DoSetHTTPS
    \/ DoSetProxy
    \/ DoGetTextSchemes
    \/ DoGetSchemes

SpecSettings == Init /\ [][NextSettings]_vars

\* str starts with the scheme, whatever the case of its letters
StartsWithNoCase(str, lower, upper) ==
    /\ Len(str) >= Len(lower)
    /\ \A i \in 1..Len(lower) : str[i] \in {lower[i], upper[i]}

IsHttpURL(str)  == StartsWithNoCase(str, PREFIX_HTTP, STR_HTTP_URL)
IsHttpsURL(str) == StartsWithNoCase(str, PREFIX_HTTPS, STR_HTTPS_URL)
HasScheme(str)  == IsHttpURL(str) \/ IsHttpsURL(str)

\* the call made by this step is a request that passes the usage checks and
\* triggers a transfer
Requests == last'.op \in RequestOps /\ last'.xfer.res # NoTransfer.res

\* C15: a request that passes the usage checks stores the URL verbatim and
\* sets the HTTPS flag to false when the URL starts with "http://" and to
\* true when it starts with "https://", in any case of the letters;
\* otherwise it leaves the flag and stores "https://" + URL when the flag is
\* true and "http://" + URL when it is false; the stored URL is the one given
\* to the engine.
C15_CheckURL ==
    [][ Requests =>
          LET c == last'.c
              strURL == last'.args[1]
          IN  /\ IF IsHttpURL(strURL)
                 THEN /\ ~GetHTTPS(client'[c])
                      /\ client'[c].m_strURL = strURL
                 ELSE IF IsHttpsURL(strURL)
                 THEN /\ GetHTTPS(client'[c])
                      /\ client'[c].m_strURL = strURL
                 ELSE /\ GetHTTPS(client'[c]) = GetHTTPS(client[c])
                      /\ client'[c].m_strURL =
                            (IF GetHTTPS(client[c]) THEN PREFIX_HTTPS
                             ELSE PREFIX_HTTP) \o strURL
              /\ OptVal(easy'[c], "CURLOPT_URL") = client'[c].m_strURL ]_vars

\* a request with "Https://a" on an object whose session was opened with
\* HTTPS off has stored the URL as given and set the flag
C15_Witness ==
    /\ Performed
    /\ last.args[1] = URL_HTTPS
    /\ client[last.c].m_strURL = URL_HTTPS
    /\ GetHTTPS(client[last.c])
    /\ OptVal(easy[last.c], "CURLOPT_URL") = URL_HTTPS

\* C16: after a request whose URL has an explicit scheme GetHTTPS() tells
\* that scheme, and the request that follows it with a URL without scheme is
\* sent to that scheme, with the TLS options set exactly when the scheme was
\* https.
C16_SchemeCarriesOver ==
    /\ []( (Performed /\ last.op \in RequestOps /\ HasScheme(last.args[1])) =>
              (GetHTTPS(client[last.c]) <=> IsHttpsURL(last.args[1])) )
    /\ [][ ( /\ Performed /\ last.op \in RequestOps
              /\ HasScheme(last.args[1])
              /\ Requests /\ last'.c = last.c
              /\ ~HasScheme(last'.args[1]) ) =>
              LET c == last.c
                  https == IsHttpsURL(last.args[1])
              IN  /\ GetHTTPS(client'[c]) = https
                  /\ OptVal(easy'[c], "CURLOPT_URL") =
                        (IF https THEN PREFIX_HTTPS ELSE PREFIX_HTTP)
                            \o last'.args[1]
                  /\ IsSet(easy'[c], "CURLOPT_USE_SSL") <=> https
                  /\ IsSet(easy'[c], "CURLOPT_SSL_VERIFYPEER") <=> https
            ]_vars

\* a request without scheme was sent to https with the TLS options set
C16_Witness ==
    /\ Performed
    /\ last.args[1] = URL_PLAIN
    /\ GetHTTPS(client[last.c])
    /\ OptVal(easy[last.c], "CURLOPT_URL") = PREFIX_HTTPS \o URL_PLAIN
    /\ IsSet(easy[last.c], "CURLOPT_USE_SSL")

\* C17: SetProxy with a non-empty string stores "http://" + string unless
\* the first four characters of the string are "http" in any case of the
\* letters, and stores the string as given if they are; GetProxy returns
\* what is stored.
C17_SetProxy ==
    [][ (last'.op = "SetProxy" /\ last'.args[1] # <<>>) =>
          LET strProxy == last'.args[1] IN
          GetProxy(client'[last'.c]) =
              IF StartsWithNoCase(strProxy, SubSeq(PREFIX_HTTP, 1, 4), STR_HTTP)
              THEN strProxy
              ELSE PREFIX_HTTP \o strProxy ]_vars

\* SetProxy("Https://x") has stored the string as given
C17_Witness ==
    /\ last.op = "SetProxy"
    /\ last.args[1] = PROXY_HTTPS
    /\ GetProxy(client[last.c]) = PROXY_HTTPS

\* C18: the proxy address given to the engine for a transfer always carries
\* a scheme: a proxy string without "http://" or "https://", also one that
\* merely begins with the letters "http", was prefixed with "http://".
C18_ProxyHandedWithScheme ==
    (Performed /\ GetProxy(client[last.c]) # <<>>) =>
        /\ IsSet(easy[last.c], "CURLOPT_PROXY")
        /\ HasScheme(OptVal(easy[last.c], "CURLOPT_PROXY"))

\* C19: after a transfer with HTTPS active, peer verification is on for the
\* engine exactly when VERIFY_PEER is in the settings flags and host
\* verification exactly when VERIFY_HOST is.
C19_VerificationFollowsFlags ==
    (Performed /\ IsSet(easy[last.c], "CURLOPT_USE_SSL")) =>
        /\ OptInEffect(easy[last.c], "CURLOPT_SSL_VERIFYPEER") # 0
              <=> FlagSet(client[last.c].m_eSettingsFlags, VERIFY_PEER)
        /\ OptInEffect(easy[last.c], "CURLOPT_SSL_VERIFYHOST") # 0
              <=> FlagSet(client[last.c].m_eSettingsFlags, VERIFY_HOST)

RestOps == {"Head", "Get", "Del", "Post", "Put", "PutBuffer"}

\* C20: a REST call whose transfer fails returns false and leaves
\* Response.iCode = -1 and Response.strBody empty, whatever body blocks the
\* write callback had appended before the failure.
C20_RestFailureShape ==
    [][ ( /\ last'.op \in RestOps
          /\ last'.xfer.res # NoTransfer.res
          /\ last'.xfer.res # CURLE_OK ) =>
          /\ ~last'.ret
          /\ out'[last'.c].Response.iCode = -1
          /\ out'[last'.c].Response.strBody = <<>> ]_vars

\* a Del has failed after a body block and a header line had been delivered
C20_Witness ==
    /\ last.op = "Del"
    /\ ~last.ret
    /\ last.xfer = TRANSFER_CUT
    /\ last.xfer.body # <<>>
    /\ out[last.c].Response.iCode = -1
    /\ out[last.c].Response.strBody = <<>>
    /\ out[last.c].Response.mapHeaders # EmptyMap

----------------------------------------------------------------------------
(* One object with an open session: what the transfers report              *)

\* a server error, and the outcomes of a transfer all together
TRANSFER_500 == Transfer(CURLE_OK, 500, <<"e">>, <<HDR_KEY_A>>)
TransferAll  == TransferOutcomes \cup {TRANSFER_500}

\* the session is opened once, with or without the flags
DoInitSessionFlags ==
    \E c \in Clients, f \in FlagInputs, h \in CurlEasyInit \ {NULL} :
        client[c].m_pCurlSession = NULL /\ InitSession(c, FALSE, f, h)

DoGetTextAll ==
    \E c \in Clients, x \in TransferAll : GetText(c, URL_PLAIN, <<>>, x)
DoDownloadFileAll ==
    \E c \in Clients, opened \in BOOLEAN, x \in TransferAll :
        DownloadFile(c, <<"f">>, URL_PLAIN, opened, x)
DoUploadFormAll ==
    \E c \in Clients, form \in FormInputs, x \in TransferAll :
        UploadForm(c, URL_PLAIN, form, x)
DoRestAll ==
    \E c \in Clients, verb \in RestOps, x \in TransferAll :
        Rest(c, verb, URL_PLAIN, <<>>,
             IF verb \in {"Post", "Put", "PutBuffer"} THEN <<"d">> ELSE <<>>,
             NewHttpResponse, x)

NextTransfer ==
    \/ DoInitSessionFlags
    \/ DoGetTextAll
    \/ DoDownloadFileAll
    \/ DoUploadFormAll
    \/ DoRestAll

SpecTransfer == Init /\ [][NextTransfer]_vars

\* C21: a REST call whose transfer completes returns true with
\* Response.iCode equal to the status the engine reports, whatever the status
\* (200, 404, 500); a REST call that made a transfer returns false only when
\* the transfer failed.
C21_RestStatus ==
    [][ (Requests /\ last'.op \in RestOps) =>
          /\ last'.ret <=> (last'.xfer.res = CURLE_OK)
          /\ last'.xfer.res = CURLE_OK =>
                out'[last'.c].Response.iCode = last'.xfer.code ]_vars

\* a Post has returned true with the status 500 of the server
C21_Witness ==
    /\ last.op = "Post"
    /\ last.ret
    /\ last.xfer = TRANSFER_500
    /\ out[last.c].Response.iCode = 500
    /\ out[last.c].Response.strBody = <<"e">>

PlainOps == {"GetText", "DownloadFile", "UploadForm"}

\* C22: GetText, DownloadFile and UploadForm, once they have made a
\* transfer, return false exactly when the transfer failed, and in both cases
\* leave in the caller's status code the last status the engine received
\* (0 when it received none).
C22_PlainStatus ==
    [][ (Requests /\ last'.op \in PlainOps) =>
          /\ ~last'.ret <=> (last'.xfer.res # CURLE_OK)
          /\ out'[last'.c].lHTTPStatusCode = last'.xfer.code ]_vars

\* a GetText has failed after a response with status 200 had arrived, and
\* the caller has the 200
C22_Witness ==
    /\ last.op = "GetText"
    /\ ~last.ret
    /\ last.xfer.res = CURLE_RECV_ERROR
    /\ last.xfer.code = 200
    /\ out[last.c].lHTTPStatusCode = 200

\* C23: after a DownloadFile that made a transfer the local file is not on
\* disk when the final status is not 200, also when the call returns true,
\* and it is on disk with the body received when the status is 200 and the
\* transfer succeeded.
C23_DownloadedFile ==
    [][ (Requests /\ last'.op = "DownloadFile") =>
          /\ last'.xfer.code # 200 => ~out'[last'.c].file.exists
          /\ (last'.xfer.code = 200 /\ last'.xfer.res = CURLE_OK) =>
                /\ out'[last'.c].file.exists
                /\ out'[last'.c].file.data = last'.xfer.body ]_vars

\* a DownloadFile has returned true with status 404 and left no file
C23_Witness ==
    /\ last.op = "DownloadFile"
    /\ last.ret
    /\ last.xfer.code = 404
    /\ out[last.c].lHTTPStatusCode = 404
    /\ ~out[last.c].file.exists

\* C24: a DownloadFile that passes the usage checks and cannot open its
\* local file makes no transfer and returns false, whatever the settings
\* flags.
C24_OpenFailureIsFailure ==
    [][ ( /\ last'.op = "DownloadFile"
          /\ last'.args[1] # <<>>
          /\ client[last'.c].m_pCurlSession # NULL
          /\ last'.xfer = NoTransfer ) =>
          ~last'.ret ]_vars

----------------------------------------------------------------------------
(* The read callback of Put, called by the engine until it returns 0       *)

RECURSIVE SeqsUpTo(_, _)
SeqsUpTo(S, n) ==
    IF n = 0 THEN {<<>>}
    ELSE LET shorter == SeqsUpTo(S, n - 1)
         IN  shorter \cup {Append(q, ch) : q \in shorter, ch \in S}

\* the buffers a Put is given and the block sizes the engine asks for
ByteBufferInputs == SeqsUpTo({"a", "b"}, MaxLen)
BlockSizeInputs  == 1..MaxBlock

InitRead ==
    /\ client = [c \in {1} |-> NewClient]
    /\ pc = [c \in {1} |-> "alive"]
    /\ easy = [c \in {1} |-> NoOptions]
    /\ heap = [handles |-> {}, allocs |-> 0, lists |-> {}, bad |-> FALSE]
    /\ inst = "done"
    /\ env = [inits |-> 1, failures |-> 0, cleanups |-> 0, proc |-> "running"]
    /\ session = [c \in {1} |-> "Uninitialized"]
    /\ built = [c \in {1} |-> 1]
    /\ count = 1
    /\ caFile = <<>>
    /\ \E Data \in ByteBufferInputs, B \in BlockSizeInputs :
           upload = PutPayload(Data, B)
    /\ forms = NoForms
    /\ out = [c \in {1} |-> NewOutputs]
    /\ last = Call(1, "Put", <<>>, TRUE, <<>>)

\* the engine asks for the next block; it stops asking once it was given 0
DoRestReadCallback ==
    /\ upload.calls = 0 \/ upload.ret # 0
    /\ upload' = RestReadCallback(upload)
    /\ UNCHANGED <<client, pc, easy, heap, inst, env, session, built, count,
                   caFile, forms, out, last>>

NextRead == DoRestReadCallback
SpecRead == InitRead /\ [][NextRead]_vars

Ceil(a, b) == (a + b - 1) \div b

\* C25: with a buffer of L bytes and blocks of B >= 1 bytes, every call of
\* the read callback copies min(remaining, B) bytes and advances by as many;
\* the bytes come in the order of the buffer, the remaining length never
\* goes below 0, a call returns 0 exactly when nothing remained, and by
\* then L bytes have been returned over ceil(L/B) calls that returned bytes.
C25_ReadSource ==
    [][ upload'.calls = upload.calls + 1 =>
          LET L         == Len(upload.Data)
              B         == upload.usCurlSize
              remaining == upload.Payload.usLength
          IN  /\ upload'.ret = Min(remaining, B)
              /\ upload'.Payload.usLength = remaining - upload'.ret
              /\ upload'.Payload.usLength >= 0
              /\ upload'.Payload.pszData = upload.Payload.pszData + upload'.ret
              /\ upload'.wire = SubSeq(upload.Data, 1, L - upload'.Payload.usLength)
              /\ (upload'.ret = 0) <=> (remaining = 0)
              /\ upload'.ret = 0 =>
                    /\ upload'.wire = upload.Data
                    /\ upload'.chunks = Ceil(L, B)
                    /\ upload'.calls = Ceil(L, B) + 1 ]_vars

\* three bytes were read in blocks of two: the calls returned 2, 1 and 0
C25_Witness ==
    /\ upload.Data = <<"a", "b", "a">>
    /\ upload.usCurlSize = 2
    /\ upload.calls = 3
    /\ upload.chunks = 2
    /\ upload.ret = 0
    /\ upload.wire = upload.Data

----------------------------------------------------------------------------
(* The header callback of the REST requests, called once per header line   *)

HDR_TWO_COLONS == <<"K", ":", "a", ":", "b">>
HDR_NO_KEY     == <<":", "v">>
HDR_NO_VALUE   == <<"K", ":", " ", "\r", "\n">>
HDR_BARE       == <<" ", "X", " ", "\r", "\n">>
HDR_SPACES     == <<" ", "\t">>

HeaderLineInputs ==
    { HDR_STATUS, HDR_KEY_A, HDR_KEY_B, HDR_BLANK, HDR_TWO_COLONS, HDR_NO_KEY,
      HDR_NO_VALUE, HDR_BARE, HDR_SPACES }

\* the engine hands one header line of a response to the callback
DoRestHeaderCallback ==
    \E c \in Clients, strHeader \in HeaderLineInputs :
        /\ out' = [out EXCEPT ![c].Response.mapHeaders =
                                  RestHeaderCallback(@, strHeader)]
        /\ last' = Call(c, "RestHeaderCallback", <<strHeader>>,
                        RestHeaderCallbackRet(strHeader), <<>>)
        /\ UNCHANGED <<client, pc, easy, heap, inst, env, session, built,
                       count, caFile, upload, forms>>

NextHeader == DoRestHeaderCallback
SpecHeader == Init /\ [][NextHeader]_vars

\* t is s without its leading and trailing white space
IsTrimOf(t, s) ==
    \E i \in 1..(Len(s) + 1), j \in 0..Len(s) :
        /\ t = SubSeq(s, i, j)
        /\ \A k \in 1..(i - 1) : IsSpace(s[k])
        /\ \A k \in (j + 1)..Len(s) : IsSpace(s[k])
        /\ t # <<>> => ~IsSpace(t[1]) /\ ~IsSpace(t[Len(t)])

\* m2 is m1 with key k set to v and nothing else changed
IsPut(m2, m1, k, v) ==
    /\ DOMAIN m2 = DOMAIN m1 \cup {k}
    /\ m2[k] = v
    /\ \A x \in DOMAIN m1 \ {k} : m2[x] = m1[x]

\* C26: for every header line the header callback returns the number of
\* bytes of the line; a line with a colon is split at its first colon and
\* stored as trimmed key -> trimmed value, in place of any value the key
\* had; a line without colon is stored as trimmed text -> "present" when
\* the trimmed text is not empty, and otherwise the map is left as it was.
C26_HeaderParser ==
    [][ last'.op = "RestHeaderCallback" =>
          LET line == last'.args[1]
              m1   == out[last'.c].Response.mapHeaders
              m2   == out'[last'.c].Response.mapHeaders
              colons == {i \in 1..Len(line) : line[i] = ":"}
          IN  /\ last'.ret = Len(line)
              /\ colons # {} =>
                    \E i \in colons, k \in DOMAIN m2 :
                        /\ \A j \in colons : i <= j
                        /\ IsTrimOf(k, SubSeq(line, 1, i - 1))
                        /\ IsTrimOf(m2[k], SubSeq(line, i + 1, Len(line)))
                        /\ IsPut(m2, m1, k, m2[k])
              /\ (colons = {} /\ \E i \in 1..Len(line) : ~IsSpace(line[i])) =>
                    \E k \in DOMAIN m2 :
                        /\ IsTrimOf(k, line)
                        /\ IsPut(m2, m1, k, STR_PRESENT)
              /\ (colons = {} /\ \A i \in 1..Len(line) : IsSpace(line[i])) =>
                    m2 = m1 ]_vars

\* the line " K :b \r\n" has replaced the value of K, beside the status
\* line stored as "present"
C26_Witness ==
    /\ last.op = "RestHeaderCallback"
    /\ last.args = <<HDR_KEY_B>>
    /\ last.ret = 8
    /\ DOMAIN out[last.c].Response.mapHeaders =
           {<<"K">>, <<"H", "T", "T", "P", "/", "1", " ", "2">>}
    /\ out[last.c].Response.mapHeaders[<<"K">>] = <<"b">>

----------------------------------------------------------------------------
(* One object with an open session and a progress callback                 *)

\* a function that lets the transfer go on and one that stops it, a lambda
\* and a functor
ProgressFnInputs ==
    { Callable("function", 0), Callable("function", 1),
      Callable("lambda", 1), Callable("functor", 0) }

DoSetProgressFnCallback ==
    \E c \in Clients, fnCallback \in ProgressFnInputs :
        SetProgressFnCallback(c, NULL, fnCallback)

NextProgress ==
    \/ DoInitSessionFlags
    \/ DoSetProgressFnCallback
    \/ DoGetTextAll
    \/ DoDownloadFileAll
    \/ DoUploadFormAll
    \/ DoRestAll

SpecProgress == Init /\ [][NextProgress]_vars

\* the request reached the dereference of GetProgressFnCallback() in Perform
ReachedPerform == Requests \/ last'.op = "SIGSEGV"

\* C27: when the progress callback the engine calls during a transfer
\* returns nonzero, the request returns false, and a REST verb leaves
\* Response.iCode = -1 and an empty strBody; a callback that returns 0 aborts
\* no transfer, and the request then fails only when the transfer does.
C27_ProgressAbort ==
    [][ Requests =>
          LET cl   == client[last'.c]
              fn   == cl.m_fnProgressCallback
              resp == out'[last'.c].Response
          IN  /\ (cl.m_bProgressCallbackSet /\ fn.kind = "function"
                                            /\ fn.ret # 0) =>
                    /\ ~last'.ret
                    /\ last'.op \in RestOps =>
                          resp.iCode = -1 /\ resp.strBody = <<>>
              /\ (cl.m_bProgressCallbackSet /\ fn.kind = "function"
                                            /\ fn.ret = 0) =>
                    /\ last'.xfer.res # CURLE_ABORTED_BY_CALLBACK
                    /\ last'.ret <=> (last'.xfer.res = CURLE_OK) ]_vars

\* a Get was aborted by the progress function after a body block had come
C27_Witness ==
    /\ last.op = "Get"
    /\ ~last.ret
    /\ last.xfer.res = CURLE_ABORTED_BY_CALLBACK
    /\ last.xfer.body # <<>>
    /\ client[last.c].m_fnProgressCallback = Callable("function", 1)
    /\ OptVal(easy[last.c], "CURLOPT_PROGRESSFUNCTION") = Callable("function", 1)
    /\ OptVal(easy[last.c], "CURLOPT_NOPROGRESS") = 0
    /\ out[last.c].Response.iCode = -1
    /\ out[last.c].Response.strBody = <<>>

\* C28: whatever callable was registered with SetProgressFnCallback, a
\* request that reaches Perform hands that callable to the engine as its
\* progress function, and reads through no null pointer to do so.
C28_EveryCallableWired ==
    [][ (ReachedPerform /\ client[last'.c].m_bProgressCallbackSet) =>
          /\ last'.op # "SIGSEGV"
          /\ GetProgressFnCallback(client[last'.c]) # NULL
          /\ OptVal(easy'[last'.c], "CURLOPT_PROGRESSFUNCTION") =
                 client[last'.c].m_fnProgressCallback ]_vars

\* C30: an UploadForm whose PostFormInfo holds a null chain, with a URL and
\* an open session, is not refused: it makes the transfer as a POST with no
\* multipart body set, with the header "Expect:" and with the sink that
\* discards the response, and returns true exactly when the transfer
\* succeeded.
C30_NullChain ==
    [][ ( /\ last'.op = "UploadForm"
          /\ last'.args[1] # <<>>
          /\ last'.args[2] = NULL
          /\ client[last'.c].m_pCurlSession # NULL ) =>
          LET o == easy'[last'.c]
          IN  /\ last'.xfer # NoTransfer
              /\ ~IsSet(o, "CURLOPT_HTTPPOST")
              /\ OptVal(o, "CURLOPT_POST") = 1
              /\ OptVal(o, "CURLOPT_WRITEFUNCTION") = "ThrowAwayCallback"
              /\ \E i \in DOMAIN OptVal(o, "CURLOPT_HTTPHEADER") :
                     OptVal(o, "CURLOPT_HTTPHEADER")[i] = STR_EXPECT
              /\ out'[last'.c].strOutput = <<>>
              /\ last'.ret <=> (last'.xfer.res = CURLE_OK) ]_vars

\* an UploadForm with a null chain has returned true after a transfer whose
\* response body was discarded
C30_Witness ==
    /\ last.op = "UploadForm"
    /\ last.args[2] = NULL
    /\ last.ret
    /\ last.xfer.body # <<>>
    /\ ~IsSet(easy[last.c], "CURLOPT_HTTPPOST")
    /\ OptVal(easy[last.c], "CURLOPT_POST") = 1
    /\ out[last.c].strOutput = <<>>

----------------------------------------------------------------------------
(* The PostFormInfo objects of a caller                                    *)

FormIds == 1..MaxForms

InitForm ==
    /\ client = [c \in {1} |-> NewClient]
    /\ pc = [c \in {1} |-> "alive"]
    /\ easy = [c \in {1} |-> NoOptions]
    /\ heap = [handles |-> {}, allocs |-> 0, lists |-> {}, bad |-> FALSE]
    /\ inst = "done"
    /\ env = [inits |-> 1, failures |-> 0, cleanups |-> 0, proc |-> "running"]
    /\ session = [c \in {1} |-> "Uninitialized"]
    /\ built = [c \in {1} |-> 1]
    /\ count = 1
    /\ caFile = <<>>
    /\ upload = NoUpload
    /\ forms = [obj   |-> [i \in FormIds |-> NoPostFormInfo],
                chain |-> [k \in FormIds |-> NoChain],
                bad   |-> FALSE]
    /\ out = [c \in {1} |-> NewOutputs]
    /\ last = Call(1, "CHTTPClient", <<>>, TRUE, <<>>)

\* objects are declared one after the other
DoPostFormInfoCtor ==
    \E i \in FormIds :
        /\ forms.obj[i].state = "none"
        /\ \A j \in 1..(i - 1) : forms.obj[j].state # "none"
        /\ FormCall(i, "PostFormInfo", PostFormInfoCtor(forms, i))

DoPostFormInfoCopy ==
    \E i \in FormIds, j \in FormIds :
        /\ forms.obj[i].state = "alive"
        /\ forms.obj[j].state = "none"
        /\ \A n \in 1..(j - 1) : forms.obj[n].state # "none"
        /\ FormCall(j, "PostFormInfo(const PostFormInfo&)",
                    PostFormInfoCopy(forms, i, j))

DoAddFormContent ==
    \E i \in FormIds :
        /\ forms.obj[i].state = "alive"
        /\ forms.obj[i].m_pLastFormptr < MaxParts
        /\ FormCall(i, "AddFormContent", CurlFormAdd(forms, i))

DoAddFormFile ==
    \E i \in FormIds :
        /\ forms.obj[i].state = "alive"
        /\ forms.obj[i].m_pLastFormptr < MaxParts
        /\ FormCall(i, "AddFormFile", CurlFormAdd(forms, i))

DoPostFormInfoDtor ==
    \E i \in FormIds :
        /\ forms.obj[i].state = "alive"
        /\ FormCall(i, "~PostFormInfo", PostFormInfoDtor(forms, i))

NextForm ==
    \/ DoPostFormInfoCtor
    \/ DoPostFormInfoCopy
    \/ DoAddFormContent
    \/ DoAddFormFile
    \/ DoPostFormInfoDtor

SpecForm == InitForm /\ [][NextForm]_vars

\* C29: the destructor of a PostFormInfo that holds a chain releases it,
\* and that is the only release of the chain; the destructor of one that
\* holds none releases nothing; this holds also for the copies of a
\* PostFormInfo.
C29_ReleasedOnce ==
    [][ last'.op = "~PostFormInfo" =>
          LET k == forms.obj[last'.c].m_pFormPost
          IN  IF k = NULL THEN forms'.chain = forms.chain
              ELSE /\ forms'.chain[k].frees = 1
                   /\ \A j \in FormIds \ {k} :
                          forms'.chain[j] = forms.chain[j] ]_vars

----------------------------------------------------------------------------
(* Claims about the header list, the downloaded file and the progress data *)

\* C37: an object whose session is Uninitialized holds no header list, and
\* no header list of a destroyed object is left allocated.
C37_NoListWithoutSession ==
    \A c \in Clients :
        /\ client[c].m_pCurlSession = NULL => client[c].m_pHeaderlist = <<>>
        /\ pc[c] = "dead" => c \notin heap.lists

\* C39: a DownloadFile that opened the local file, made a transfer and
\* returned false leaves no local file on disk.
C39_FailedDownloadLeavesNoFile ==
    [][ (Requests /\ last'.op = "DownloadFile" /\ ~last'.ret) =>
          ~out'[last'.c].file.exists ]_vars

\* C40: in a transfer made with a progress callback registered, the pCurl
\* of the progress data given to the engine is the handle of the session.
C40_ProgressDataHandle ==
    [][ (Requests /\ client[last'.c].m_bProgressCallbackSet) =>
          OptVal(easy'[last'.c], "CURLOPT_PROGRESSDATA").pCurl =
              client[last'.c].m_pCurlSession ]_vars

----------------------------------------------------------------------------
(* One HttpResponse handed to REST call after REST call                    *)

DoRestSameResponse ==
    \E c \in Clients, verb \in RestOps, x \in TransferAll :
        /\ Len(out[c].Response.strBody) < MaxBody
        /\ Rest(c, verb, URL_PLAIN, <<>>,
                IF verb \in {"Post", "Put", "PutBuffer"} THEN <<"d">> ELSE <<>>,
                out[c].Response, x)

NextResponse == DoInitSessionFlags \/ DoRestSameResponse
SpecResponse == Init /\ [][NextResponse]_vars

\* C38: a REST call that succeeds on a response object used before appends
\* the body it receives to strBody, adds the headers it receives to
\* mapHeaders, where they replace the values of the keys already there, and
\* sets iCode to its own status.
C38_ResponseAccumulates ==
    [][ (Requests /\ last'.op \in RestOps /\ last'.ret) =>
          LET before == out[last'.c].Response
              after  == out'[last'.c].Response
              fresh  == HeadersReceived(EmptyMap, last'.xfer.headers)
          IN  /\ after.strBody =
                     before.strBody \o (IF last'.op = "Head" THEN <<>>
                                        ELSE last'.xfer.body)
              /\ DOMAIN after.mapHeaders =
                     DOMAIN before.mapHeaders \cup DOMAIN fresh
              /\ \A k \in DOMAIN after.mapHeaders :
                     after.mapHeaders[k] = IF k \in DOMAIN fresh THEN fresh[k]
                                           ELSE before.mapHeaders[k]
              /\ after.iCode = last'.xfer.code ]_vars

\* a second Get on the same response: the body of a 200 followed by the
\* body of a 404, the value of K replaced, the status line of the first
\* call still there
C38_Witness ==
    /\ last.op = "Get"
    /\ last.ret
    /\ out[last.c].Response.strBody = <<"b", "e">>
    /\ out[last.c].Response.iCode = 404
    /\ DOMAIN out[last.c].Response.mapHeaders =
           {<<"K">>, <<"H", "T", "T", "P", "/", "1", " ", "2">>}
    /\ out[last.c].Response.mapHeaders[<<"K">>] = <<"b">>

----------------------------------------------------------------------------
(* Setters and getters of the configuration                                *)

\* a setter that stores its argument: the object afterwards is cl
Setter(c, op, arg, cl) ==
    /\ pc[c] = "alive"
    /\ env.proc = "running"
    /\ client' = [client EXCEPT ![c] = cl]
    /\ last' = Call(c, op, <<arg>>, TRUE, <<>>)
    /\ out' = [out EXCEPT ![c] = NoOutputs(@)]
    /\ UNCHANGED <<pc, easy, heap, inst, env, session, built, count, caFile,
                   upload, forms>>

\* variant of SetTimeout: the timeout is stored in every object, as a static
\* member would be
SetTimeoutShared(c, iTimeout) ==
    /\ pc[c] = "alive"
    /\ env.proc = "running"
    /\ client' = [d \in Clients |->
                      [client[d] EXCEPT !.m_iCurlTimeout = iTimeout]]
    /\ last' = Call(c, "SetTimeout", <<iTimeout>>, TRUE, <<>>)
    /\ out' = [out EXCEPT ![c] = NoOutputs(@)]
    /\ UNCHANGED <<pc, easy, heap, inst, env, session, built, count, caFile,
                   upload, forms>>

SetTimeout(c, iTimeout) ==
    Setter(c, "SetTimeout", iTimeout,
           [client[c] EXCEPT !.m_iCurlTimeout = iTimeout])

SetNoSignal(c, bNoSignal) ==
    Setter(c, "SetNoSignal", bNoSignal,
           [client[c] EXCEPT !.m_bNoSignal = bNoSignal])

SetSSLCertFile(c, strPath) ==
    Setter(c, "SetSSLCertFile", strPath,
           [client[c] EXCEPT !.m_strSSLCertFile = strPath])

SetSSLKeyFile(c, strPath) ==
    Setter(c, "SetSSLKeyFile", strPath,
           [client[c] EXCEPT !.m_strSSLKeyFile = strPath])

SetSSLKeyPassword(c, strPwd) ==
    Setter(c, "SetSSLKeyPassword", strPwd,
           [client[c] EXCEPT !.m_strSSLKeyPwd = strPwd])

\* SetCertificateFile: static, it stores the path for every object; c is the
\* thread that calls it
SetCertificateFile(c, strPath) ==
    /\ pc[c] = "alive"
    /\ env.proc = "running"
    /\ caFile' = strPath
    /\ last' = Call(c, "SetCertificateFile", <<strPath>>, TRUE, <<>>)
    /\ out' = [out EXCEPT ![c] = NoOutputs(@)]
    /\ UNCHANGED <<client, pc, easy, heap, inst, env, session, built, count,
                   upload, forms>>

GetTimeout(cl)  == cl.m_iCurlTimeout
GetNoSignal(cl) == cl.m_bNoSignal

\* what the getters of an object return; GetProgressFnCallback is read
\* through (*GetProgressFnCallback()), which has a value only when the
\* pointer is not null
Getters(cl) ==
    [ GetURL           |-> cl.m_strURL,
      GetProxy         |-> GetProxy(cl),
      GetTimeout       |-> GetTimeout(cl),
      GetNoSignal      |-> GetNoSignal(cl),
      GetHTTPS         |-> GetHTTPS(cl),
      GetSettingsFlags |-> cl.m_eSettingsFlags,
      GetCurlPointer   |-> cl.m_pCurlSession,
      GetSSLCertFile   |-> cl.m_strSSLCertFile,
      GetSSLKeyFile    |-> cl.m_strSSLKeyFile,
      GetSSLKeyPwd     |-> cl.m_strSSLKeyPwd,
      GetProgressFnCallbackOwner |-> cl.m_ProgressStruct.pOwner,
      GetProgressFnCallback |->
          IF GetProgressFnCallback(cl) # NULL THEN cl.m_fnProgressCallback
          ELSE NoCallable ]

TimeoutInputs == {-1, 0, 5}
PathInputs    == {<<>>, <<"p">>}
OwnerInputs   == {NULL, 1}

DoSetTimeout == \E c \in Clients, t \in TimeoutInputs : SetTimeout(c, t)
DoSetNoSignal == \E c \in Clients, b \in BOOLEAN : SetNoSignal(c, b)
DoSetSSLCertFile == \E c \in Clients, p \in PathInputs : SetSSLCertFile(c, p)
DoSetSSLKeyFile == \E c \in Clients, p \in PathInputs : SetSSLKeyFile(c, p)
DoSetSSLKeyPassword ==
    \E c \in Clients, p \in PathInputs : SetSSLKeyPassword(c, p)
DoSetCertificateFile ==
    \E c \in Clients, p \in PathInputs : SetCertificateFile(c, p)
DoSetProgressFnCallbackOwner ==
    \E c \in Clients, pOwner \in OwnerInputs, fnCallback \in ProgressFnInputs :
        SetProgressFnCallback(c, pOwner, fnCallback)

NextConfig ==
    \/ DoSetTimeout
    \/ DoSetNoSignal
    \/ DoSetHTTPS
    \/ DoSetSSLCertFile
    \/ DoSetSSLKeyFile
    \/ DoSetSSLKeyPassword
    \/ DoSetProgressFnCallbackOwner

SpecConfig == Init /\ [][NextConfig]_vars

\* the getter a setter is matched with, and the value the setter was given
SetterGetter ==
    [ SetTimeout        |-> "GetTimeout",
      SetNoSignal       |-> "GetNoSignal",
      SetHTTPS          |-> "GetHTTPS",
      SetSSLCertFile    |-> "GetSSLCertFile",
      SetSSLKeyFile     |-> "GetSSLKeyFile",
      SetSSLKeyPassword |-> "GetSSLKeyPwd" ]

\* the data member a setter stores into
SetterField ==
    [ SetTimeout        |-> "m_iCurlTimeout",
      SetNoSignal       |-> "m_bNoSignal",
      SetHTTPS          |-> "m_bHTTPS",
      SetSSLCertFile    |-> "m_strSSLCertFile",
      SetSSLKeyFile     |-> "m_strSSLKeyFile",
      SetSSLKeyPassword |-> "m_strSSLKeyPwd" ]

\* C33: the getters of a new object return empty URL, proxy and TLS paths,
\* no-signal false, HTTPS false, timeout 0 and ALL_FLAGS; after a setter
\* its getter returns the value given (for SetProgressFnCallback the owner
\* and the callable), every other getter returns what it did before, and
\* no field but the ones of the setter has changed.
C33_GettersSetters ==
    [][ LET c == last'.c
            g == Getters(client[c])
            h == Getters(client'[c])
        IN  /\ last.op = "CHTTPClient" =>
                  /\ g.GetURL = <<>> /\ g.GetProxy = <<>>
                  /\ g.GetSSLCertFile = <<>> /\ g.GetSSLKeyFile = <<>>
                  /\ g.GetSSLKeyPwd = <<>>
                  /\ ~g.GetNoSignal /\ ~g.GetHTTPS
                  /\ g.GetTimeout = 0
                  /\ g.GetSettingsFlags = ALL_FLAGS
            /\ last'.op \in DOMAIN SetterGetter =>
                  /\ h[SetterGetter[last'.op]] = last'.args[1]
                  /\ \A n \in DOMAIN h \ {SetterGetter[last'.op]} : h[n] = g[n]
                  /\ \A f \in DOMAIN client[c] \ {SetterField[last'.op]} :
                         client'[c][f] = client[c][f]
            /\ last'.op = "SetProgressFnCallback" =>
                  /\ h.GetProgressFnCallbackOwner =
                         client'[c].m_ProgressStruct.pOwner
                  /\ h.GetProgressFnCallback = client'[c].m_fnProgressCallback
                  /\ h.GetProgressFnCallback.kind = last'.args[1]
                  /\ \A n \in DOMAIN h \ {"GetProgressFnCallbackOwner",
                                            "GetProgressFnCallback"} :
                         h[n] = g[n] ]_vars

----------------------------------------------------------------------------
(* Timeout and signal suppression of the transfers                         *)

NextSignal ==
    \/ DoInitSessionFlags
    \/ DoSetTimeout
    \/ DoSetNoSignal
    \/ DoGetTextAll

SpecSignal == Init /\ [][NextSignal]_vars

\* C35: at every transfer CURLOPT_NOSIGNAL is set exactly when the stored
\* timeout is greater than 0 or SetNoSignal(true) is in effect, and
\* CURLOPT_TIMEOUT is set, to the stored timeout, exactly when that timeout
\* is greater than 0; so a request made with timeout 0 and no-signal false
\* has neither, whatever the request before it had.
C35_SignalSuppression ==
    [][ Requests =>
          LET cl == client[last'.c]
              o  == easy'[last'.c]
          IN  /\ IsSet(o, "CURLOPT_NOSIGNAL") <=>
                    (GetTimeout(cl) > 0 \/ GetNoSignal(cl))
              /\ IsSet(o, "CURLOPT_NOSIGNAL") =>
                    OptVal(o, "CURLOPT_NOSIGNAL") = 1
              /\ IsSet(o, "CURLOPT_TIMEOUT") <=> GetTimeout(cl) > 0
              /\ IsSet(o, "CURLOPT_TIMEOUT") =>
                    OptVal(o, "CURLOPT_TIMEOUT") = GetTimeout(cl) ]_vars

\* a transfer was made with the timeout and the suppression set on the
\* handle, and the object has since been given timeout 0 and no-signal
\* false: the request that follows starts from these options
C35_Witness ==
    /\ client[last.c].m_pCurlSession # NULL
    /\ IsSet(easy[last.c], "CURLOPT_NOSIGNAL")
    /\ IsSet(easy[last.c], "CURLOPT_TIMEOUT")
    /\ OptVal(easy[last.c], "CURLOPT_URL") # <<>>
    /\ GetTimeout(client[last.c]) = 0
    /\ ~GetNoSignal(client[last.c])
    /\ last.op \in {"SetTimeout", "SetNoSignal"}

----------------------------------------------------------------------------
(* The TLS options of the transfers                                        *)

NextTls ==
    \/ DoInitSessionFlags
    \/ DoSetHTTPS
    \/ DoSetSSLCertFile
    \/ DoSetSSLKeyFile
    \/ DoSetSSLKeyPassword
    \/ DoSetCertificateFile
    \/ DoGetTextSchemes

SpecTls == Init /\ [][NextTls]_vars

GetCertificateFile == caFile

\* the option is set, to a non-empty str, exactly when str is not empty
SetIffNonEmpty(o, name, str) ==
    /\ IsSet(o, name) <=> str # <<>>
    /\ IsSet(o, name) => OptVal(o, name) = str

\* C34: a transfer whose URL, as given to the engine, is http has none of
\* CURLOPT_USE_SSL, CURLOPT_CAINFO, CURLOPT_SSLCERT, CURLOPT_SSLKEY and
\* CURLOPT_KEYPASSWD set; a transfer whose URL is https has CURLOPT_USE_SSL,
\* and the CA file, the certificate, the key and the password are each set,
\* to the stored string, exactly when that string is not empty.
C34_TlsOnlyOnHttps ==
    [][ Requests =>
          LET cl  == client'[last'.c]
              o   == easy'[last'.c]
              url == OptVal(o, "CURLOPT_URL")
          IN  /\ IsHttpURL(url) \/ IsHttpsURL(url)
              /\ IsHttpURL(url) =>
                    \A n \in {"CURLOPT_USE_SSL", "CURLOPT_CAINFO",
                              "CURLOPT_SSLCERT", "CURLOPT_SSLKEY",
                              "CURLOPT_KEYPASSWD"} : ~IsSet(o, n)
              /\ IsHttpsURL(url) =>
                    /\ IsSet(o, "CURLOPT_USE_SSL")
                    /\ SetIffNonEmpty(o, "CURLOPT_CAINFO", GetCertificateFile)
                    /\ SetIffNonEmpty(o, "CURLOPT_SSLCERT", cl.m_strSSLCertFile)
                    /\ SetIffNonEmpty(o, "CURLOPT_SSLKEY", cl.m_strSSLKeyFile)
                    /\ SetIffNonEmpty(o, "CURLOPT_KEYPASSWD", cl.m_strSSLKeyPwd)
      ]_vars

\* an https transfer was made with a CA file and a certificate but no key,
\* by an object that had been given a password
C34_Witness ==
    /\ Performed
    /\ last.op = "GetText"
    /\ IsHttpsURL(OptVal(easy[last.c], "CURLOPT_URL"))
    /\ IsSet(easy[last.c], "CURLOPT_CAINFO")
    /\ OptVal(easy[last.c], "CURLOPT_CAINFO") = <<"p">>
    /\ IsSet(easy[last.c], "CURLOPT_SSLCERT")
    /\ OptVal(easy[last.c], "CURLOPT_SSLCERT") = <<"p">>
    /\ ~IsSet(easy[last.c], "CURLOPT_SSLKEY")
    /\ IsSet(easy[last.c], "CURLOPT_KEYPASSWD")

\* an http transfer was made by an object that holds a certificate, a key
\* and a password, with a CA file stored: none of them was given to the
\* engine
C34_WitnessHttp ==
    /\ Performed
    /\ last.op = "GetText"
    /\ IsHttpURL(OptVal(easy[last.c], "CURLOPT_URL"))
    /\ caFile # <<>>
    /\ client[last.c].m_strSSLCertFile # <<>>
    /\ client[last.c].m_strSSLKeyFile # <<>>
    /\ client[last.c].m_strSSLKeyPwd # <<>>
    /\ ~IsSet(easy[last.c], "CURLOPT_SSLCERT")

----------------------------------------------------------------------------
(* Two threads, each with an object of its own                             *)

InitThreads ==
    /\ client = [c \in 1..2 |-> NewClient]
    /\ pc = [c \in 1..2 |-> "alive"]
    /\ easy = [c \in 1..2 |-> NoOptions]
    /\ heap = [handles |-> {}, allocs |-> 0, lists |-> {}, bad |-> FALSE]
    /\ inst = "done"
    /\ env = [inits |-> 1, failures |-> 0, cleanups |-> 0, proc |-> "running"]
    /\ session = [c \in 1..2 |-> "Uninitialized"]
    /\ built = [c \in 1..2 |-> 1]
    /\ count = 2
    /\ caFile = <<>>
    /\ upload = NoUpload
    /\ forms = NoForms
    /\ out = [c \in 1..2 |-> NewOutputs]
    /\ last = Call(2, "CHTTPClient", <<>>, TRUE, <<>>)

\* each thread opens the session of its object once
DoInitSessionThread ==
    \E c \in Clients, h \in CurlEasyInit \ {NULL} :
        client[c].m_pCurlSession = NULL /\ InitSession(c, TRUE, ALL_FLAGS, h)
DoSetProxyThread == \E c \in Clients : SetProxy(c, PROXY_PLAIN)
DoSetTimeoutThread == \E c \in Clients : SetTimeout(c, 5)
DoGetTextThread ==
    \E c \in Clients : GetText(c, URL_PLAIN, <<>>, TRANSFER_OK)

NextThreads ==
    \/ DoInitSessionThread
    \/ DoDestroy
    \/ DoAddHeader
    \/ DoSetProxyThread
    \/ DoSetTimeoutThread
    \/ DoGetTextThread

SpecThreads == InitThreads /\ [][NextThreads]_vars

\* C32: a call made by a thread on its object leaves the other object as it
\* was: its handle, URL, HTTPS flag, proxy, timeout, header list, settings
\* and every other member, the options of its handle, its session, and what
\* it holds on the heap (its live handle, its header list); the objects
\* have no handle in common.
C32_InstancesIndependent ==
    [][ \A d \in Clients \ {last'.c} :
          /\ client'[d] = client[d]
          /\ easy'[d] = easy[d]
          /\ session'[d] = session[d]
          /\ pc'[d] = pc[d]
          /\ (d \in heap'.lists) <=> (d \in heap.lists)
          /\ client[d].m_pCurlSession # NULL =>
                /\ client[d].m_pCurlSession \in heap'.handles
                /\ client'[last'.c].m_pCurlSession # client[d].m_pCurlSession
      ]_vars

\* thread 2 has made a transfer through its own handle while object 1 holds
\* an open session, a pending header, a proxy and no timeout, and object 2
\* a timeout and no proxy
C32_Witness ==
    /\ last.c = 2 /\ last.op = "GetText" /\ Performed
    /\ client[1].m_pCurlSession # NULL
    /\ client[2].m_pCurlSession # NULL
    /\ client[1].m_pHeaderlist # <<>>
    /\ client[1].m_strProxy # <<>> /\ client[2].m_strProxy = <<>>
    /\ client[1].m_iCurlTimeout = 0 /\ client[2].m_iCurlTimeout = 5
    /\ IsSet(easy[2], "CURLOPT_TIMEOUT")
    /\ ~IsSet(easy[1], "CURLOPT_URL")

----------------------------------------------------------------------------
(* The file sink of DownloadFile                                           *)

\* std::ofstream::write(buff, n) on a stream: written of the n bytes reach
\* the file; a stream whose state is not good writes nothing, and a write
\* that does not write everything leaves the stream in a failed state
OfstreamWrite(stream, buff, written) ==
    IF ~stream.good THEN stream
    ELSE [stream EXCEPT !.data = @ \o SubSeq(buff, 1, written),
                        !.good = (written = Len(buff))]

\* WriteToFileCallback(buff, size, nmemb, data): ret is what it returns and
\* stream the stream behind data afterwards
WriteToFileCallback(stream, buff, size, nmemb, data, written) ==
    IF size = 0 \/ nmemb = 0 \/ size * nmemb < 1 \/ data = NULL
    THEN [ret |-> 0, stream |-> stream]
    ELSE [ret    |-> size * nmemb,
          stream |-> IF stream.is_open
                     THEN OfstreamWrite(stream, buff, written)
                     ELSE stream]

\* the stream DownloadFile has opened on the local file
OpenedStream == [exists |-> TRUE, data |-> <<>>, is_open |-> TRUE, good |-> TRUE]

InitFile ==
    /\ client = [c \in {1} |-> NewClient]
    /\ pc = [c \in {1} |-> "alive"]
    /\ easy = [c \in {1} |-> NoOptions]
    /\ heap = [handles |-> {}, allocs |-> 0, lists |-> {}, bad |-> FALSE]
    /\ inst = "done"
    /\ env = [inits |-> 1, failures |-> 0, cleanups |-> 0, proc |-> "running"]
    /\ session = [c \in {1} |-> "Uninitialized"]
    /\ built = [c \in {1} |-> 1]
    /\ count = 1
    /\ caFile = <<>>
    /\ upload = NoUpload
    /\ forms = NoForms
    /\ out = [c \in {1} |-> [NewOutputs EXCEPT !.file = OpenedStream]]
    /\ last = Call(1, "DownloadFile", <<>>, TRUE, <<>>)

\* the bytes of a block of n bytes
BlockBytes(n) == SubSeq(<<"a", "b", "c", "d">>, 1, n)
SizeInputs == 0..2

\* the engine delivers a block of size * nmemb bytes with the stream, or with
\* no destination; the file system takes all of the bytes or fewer
DoWriteToFileCallback ==
    \E size \in SizeInputs, nmemb \in SizeInputs, data \in {NULL, 1} :
      \E written \in 0..(size * nmemb) :
        LET r == WriteToFileCallback(out[1].file, BlockBytes(size * nmemb),
                                     size, nmemb, data, written)
        IN  /\ Len(out[1].file.data) < MaxLen
            /\ out' = [out EXCEPT ![1].file = r.stream]
            /\ last' = Call(1, "WriteToFileCallback",
                            <<size, nmemb, data, written>>, r.ret, <<>>)
            /\ UNCHANGED <<client, pc, easy, heap, inst, env, session, built,
                           count, caFile, upload, forms>>

NextFile == DoWriteToFileCallback
SpecFile == InitFile /\ [][NextFile]_vars

\* C31: WriteToFileCallback returns 0, and writes nothing, when the block
\* size or the block count is zero or the destination is null; otherwise it
\* returns size * nmemb, and when it does every byte of the block has been
\* written to the stream, after what the stream held.
C31_FileSink ==
    [][ last'.op = "WriteToFileCallback" =>
          LET size  == last'.args[1]
              nmemb == last'.args[2]
              data  == last'.args[3]
          IN  IF size = 0 \/ nmemb = 0 \/ data = NULL
              THEN last'.ret = 0 /\ out'[1].file = out[1].file
              ELSE /\ last'.ret = size * nmemb
                   /\ out'[1].file.data =
                         out[1].file.data \o BlockBytes(size * nmemb) ]_vars

\* the part of C31 about the calls that are rejected
C31_Rejects ==
    [][ last'.op = "WriteToFileCallback" =>
          LET size  == last'.args[1]
              nmemb == last'.args[2]
              data  == last'.args[3]
          IN  /\ (size = 0 \/ nmemb = 0 \/ data = NULL) =>
                    last'.ret = 0 /\ out'[1].file = out[1].file
              /\ ~(size = 0 \/ nmemb = 0 \/ data = NULL) =>
                    last'.ret = size * nmemb ]_vars

----------------------------------------------------------------------------
(* The upload size of a Put with a large body. In this section a length is *)
(* counted in MiB and an element of a buffer is a block of 2^20 bytes, so  *)
(* that bodies of 2 GiB and more can be drawn.                             *)

\* half the range of long, in MiB: 2^31 bytes where long has 32 bits (the
\* WINDOWS builds, the 32-bit builds), 0 where it has the 64 bits of size_t
LongHalfInputs == {2048, 0}

\* the lengths of the bodies, and the size of the engine's upload buffer
BodySizeInputs  == {0, 1, 2047, 2048, 2049}
UploadBlockSize == 2   \* MiB the engine asks the read source for in one call

InitSize ==
    /\ client = [c \in {1} |-> NewClient]
    /\ pc = [c \in {1} |-> "alive"]
    /\ heap = [handles |-> {}, allocs |-> 0, lists |-> {}, bad |-> FALSE]
    /\ inst = "done"
    /\ env = [inits |-> 1, failures |-> 0, cleanups |-> 0, proc |-> "running"]
    /\ session = [c \in {1} |-> "Uninitialized"]
    /\ built = [c \in {1} |-> 1]
    /\ count = 1
    /\ caFile = <<>>
    /\ forms = NoForms
    /\ out = [c \in {1} |-> NewOutputs]
    /\ \E L \in BodySizeInputs, half \in LongHalfInputs :
          LET Data == [i \in 1..L |-> "d"]
          IN  /\ upload = PutPayload(Data, UploadBlockSize)
              /\ easy = [c \in {1} |->
                            PutUploadOpts(NoOptions, Len(Data), half)]
              /\ last = Call(1, "Put", <<L, half>>, TRUE, <<>>)

NextSize == DoRestReadCallback
SpecSize == InitSize /\ [][NextSize]_vars

\* what C36 says of a call of the read source
DeclaredSizeIsRead ==
    LET L == Len(upload.Data)
    IN  /\ OptVal(easy[1], "CURLOPT_INFILESIZE") = L
        /\ upload'.ret = 0 <=> Len(upload.wire) = L
        /\ upload'.wire = SubSeq(upload.Data, 1, Len(upload'.wire))
        /\ upload'.Data = upload.Data

\* C36: for a Put with a body of L bytes CURLOPT_INFILESIZE is L, the read
\* source returns 0 exactly when it has delivered L bytes, which are those
\* of the body in their order, and the body is not modified.
C36_DeclaredSize ==
    [][ upload'.calls = upload.calls + 1 => DeclaredSizeIsRead ]_vars

\* C36 for the bodies whose length a long can hold
C36_WithinLong ==
    [][ ( /\ upload'.calls = upload.calls + 1
          /\ last.args[2] = 0 \/ last.args[1] < last.args[2] ) =>
          DeclaredSizeIsRead ]_vars

====
